---- MODULE Spec2Model ----
(***************************************************************************)
(* A model of ttk, a terminal widget toolkit (package ttk).                *)
(*                                                                         *)
(* Strings are sequences of one-character strings; the escape character    *)
(* 0x1b is the one-character string ESC.  Indices, columns and offsets     *)
(* keep the values they have in the Go code (0-based); a Go slice index k  *)
(* is element k+1 of the TLA+ sequence.  A Go run-time panic (index or     *)
(* slice bound out of range, negative repeat count) is recorded in the     *)
(* panic field of the frame an operation works on and ends the process.    *)
(***************************************************************************)
EXTENDS Integers, Sequences, FiniteSets, TLC

(***************************************************************************)
(* Program constants.                                                      *)
(***************************************************************************)
ANSIFg == 30
ANSIBg == 40
AttrNA == -1
AttrReset == 0
AttrBold == 1
AttrUnderline == 3
AttrReverse == 7
ColorBlack == 0
ColorWhite == 7

\* termbox's values, as the code uses them
ColorDefault == 0
TbAttrBold == 512
TbAttrUnderline == 1024
TbAttrReverse == 2048

VisibilityGet == 0
VisibilityHide == 1
VisibilityShow == 2

JustifyLeft == 0
JustifyRight == 1
JustifyCenter == 2

ESC == "\\e"
NUL == ""

\* the defaults Init stores in the globals fg and bg
fg == ColorDefault
bg == ColorDefault

(***************************************************************************)
(* Sequences as Go strings and slices.                                     *)
(***************************************************************************)
Max(a, b) == IF a > b THEN a ELSE b
Min(a, b) == IF a < b THEN a ELSE b

\* s[lo:hi] for 0 <= lo <= hi <= len(s)
Slice(s, lo, hi) == SubSeq(s, lo + 1, hi)

\* strings.Repeat(c, n) for n >= 0
Repeat(c, n) == [k \in 1..Max(n, 0) |-> c]

\* strings.Index(s, c) for a one-character c: 0-based, -1 when absent
Index(s, c) ==
    IF \E k \in 1..Len(s) : s[k] = c
    THEN (CHOOSE k \in 1..Len(s) : s[k] = c /\ \A j \in 1..(k - 1) : s[j] # c) - 1
    ELSE -1

RECURSIVE Split(_, _)
\* strings.Split(s, sep) for a one-character sep
Split(s, sep) ==
    LET k == Index(s, sep)
    IN  IF k = -1 THEN <<s>>
        ELSE <<Slice(s, 0, k)>> \o Split(Slice(s, k + 1, Len(s)), sep)

RECURSIVE BitOr(_, _)
\* a | b on non-negative integers
BitOr(a, b) ==
    IF a = 0 THEN b
    ELSE IF b = 0 THEN a
    ELSE (IF a % 2 = 1 \/ b % 2 = 1 THEN 1 ELSE 0) + 2 * BitOr(a \div 2, b \div 2)

Digit(c) ==
    CASE c = "0" -> 0 [] c = "1" -> 1 [] c = "2" -> 2 [] c = "3" -> 3
      [] c = "4" -> 4 [] c = "5" -> 5 [] c = "6" -> 6 [] c = "7" -> 7
      [] c = "8" -> 8 [] c = "9" -> 9 [] OTHER -> -1

RECURSIVE DigitsValue(_)
DigitsValue(v) ==
    IF v = <<>> THEN 0
    ELSE 10 * DigitsValue(Slice(v, 0, Len(v) - 1)) + Digit(v[Len(v)])

\* strconv.Atoi on the digits d after the sign
AtoiDigits(neg, d) ==
    IF d = <<>> \/ \E k \in 1..Len(d) : Digit(d[k]) = -1
    THEN [ok |-> FALSE, n |-> 0]
    ELSE [ok |-> TRUE, n |-> IF neg THEN 0 - DigitsValue(d) ELSE DigitsValue(d)]

\* strconv.Atoi: an optional sign and at least one decimal digit
Atoi(v) ==
    IF v # <<>> /\ v[1] \in {"+", "-"} THEN AtoiDigits(v[1] = "-", Tail(v))
    ELSE AtoiDigits(FALSE, v)

(***************************************************************************)
(* The escape codec.                                                       *)
(***************************************************************************)
\* fmt.Sprintf("%v", n) for 0 <= n <= 99
Itoa(n) ==
    LET ds == <<"0", "1", "2", "3", "4", "5", "6", "7", "8", "9">>
    IN  IF n < 10 THEN <<ds[n + 1]>> ELSE <<ds[(n \div 10) + 1], ds[(n % 10) + 1]>>

\* the parameter Color writes for n, with its separator; nothing for AttrNA
ColorParam(n, base) == IF n = AttrNA THEN <<>> ELSE Itoa(n + base) \o <<";">>

\* the end of Color: the last separator becomes m
ColorClose(es) == Slice(es, 0, Len(es) - 1) \o <<"m">>

\* Color: err is "" on success
Color(at, f, b) ==
    IF at = AttrNA /\ f = AttrNA /\ b = AttrNA THEN [es |-> <<>>, err |-> "ErrInvalidColor"]
    ELSE IF at \notin {AttrNA, AttrBold, AttrUnderline, AttrReverse, AttrReset}
    THEN [es |-> <<>>, err |-> "ErrInvalidAttribute"]
    ELSE IF ~(f = AttrNA \/ (f >= ColorBlack /\ f <= ColorWhite))
    THEN [es |-> <<>>, err |-> "ErrInvalidForeground"]
    ELSE IF ~(b = AttrNA \/ (b >= ColorBlack /\ b <= ColorWhite))
    THEN [es |-> <<>>, err |-> "ErrInvalidBackground"]
    ELSE [es |-> ColorClose(<<ESC, "[">> \o ColorParam(at, 0) \o ColorParam(f, ANSIFg)
                                         \o ColorParam(b, ANSIBg)),
          err |-> ""]

\* a turn of the loop that takes the colours as termbox numbers them
DecodeParamSameColour(a, r) ==
    IF ~r.ok THEN [a EXCEPT !.err = "NumError"]
    ELSE IF r.n = AttrReset THEN [a EXCEPT !.Fg = fg, !.Bg = bg]
    ELSE IF r.n = AttrBold THEN [a EXCEPT !.Fg = BitOr(a.Fg, TbAttrBold)]
    ELSE IF r.n = AttrUnderline THEN [a EXCEPT !.Fg = BitOr(a.Fg, TbAttrUnderline)]
    ELSE IF r.n = AttrReverse THEN [a EXCEPT !.Fg = BitOr(a.Fg, TbAttrReverse)]
    ELSE IF r.n >= ColorBlack + ANSIFg /\ r.n <= ColorWhite + ANSIFg
    THEN [a EXCEPT !.Fg = BitOr(a.Fg, r.n - ANSIFg)]
    ELSE IF r.n >= ColorBlack + ANSIBg /\ r.n <= ColorWhite + ANSIBg
    THEN [a EXCEPT !.Bg = BitOr(a.Bg, r.n - ANSIBg)]
    ELSE [a EXCEPT !.err = "ErrNotEscSequence"]

\* one turn of the loop of DecodeColor, from attributes a; r is what
\* strconv.Atoi returned for the parameter
DecodeParam(a, r) ==
    IF ~r.ok THEN [a EXCEPT !.err = "NumError"]
    ELSE IF r.n = AttrReset THEN [a EXCEPT !.Fg = fg, !.Bg = bg]
    ELSE IF r.n = AttrBold THEN [a EXCEPT !.Fg = BitOr(a.Fg, TbAttrBold)]
    ELSE IF r.n = AttrUnderline THEN [a EXCEPT !.Fg = BitOr(a.Fg, TbAttrUnderline)]
    ELSE IF r.n = AttrReverse THEN [a EXCEPT !.Fg = BitOr(a.Fg, TbAttrReverse)]
    ELSE IF r.n >= ColorBlack + ANSIFg /\ r.n <= ColorWhite + ANSIFg
    THEN [a EXCEPT !.Fg = BitOr(a.Fg, r.n - ANSIFg + 1)]
    ELSE IF r.n >= ColorBlack + ANSIBg /\ r.n <= ColorWhite + ANSIBg
    THEN [a EXCEPT !.Bg = BitOr(a.Bg, r.n - ANSIBg + 1)]
    ELSE [a EXCEPT !.err = "ErrNotEscSequence"]

\* the parameter without the m that strings.HasSuffix finds
TrimM(v) == IF v # <<>> /\ v[Len(v)] = "m" THEN Slice(v, 0, Len(v) - 1) ELSE v

RECURSIVE DecodeParams(_, _)
\* the loop of DecodeColor over the parameters
DecodeParams(ps, a) ==
    IF ps = <<>> \/ a.err # "" THEN a
    ELSE DecodeParams(Tail(ps), DecodeParam(a, Atoi(TrimM(ps[1]))))

BadEsc == [Fg |-> 0, Bg |-> 0, skip |-> 0, err |-> "ErrNotEscSequence"]

\* what DecodeColor returns once its loop has left a
Decoded(a, esc) ==
    IF a.err # "" THEN [BadEsc EXCEPT !.err = a.err]
    ELSE [Fg |-> a.Fg, Bg |-> a.Bg, skip |-> Index(esc, "m") + 1, err |-> ""]

\* DecodeColor: [Fg, Bg, skip, err], err "" on success
DecodeColor(esc) ==
    IF Len(esc) < 2 \/ esc[1] # ESC \/ esc[2] # "[" THEN BadEsc
    ELSE IF Index(Slice(esc, 2, Len(esc)), "m") = -1 THEN BadEsc
    ELSE Decoded(DecodeParams(Split(Slice(esc, 2, Index(Slice(esc, 2, Len(esc)), "m") + 3),
                                    ";"),
                              [Fg |-> 0, Bg |-> 0, err |-> ""]),
                 esc)

RECURSIVE EscapedLenFrom(_, _)
\* one turn of EscapedLen's loop at offset i; d is what DecodeColor returned
EscapedLenAt(s, i, d) ==
    IF s[i + 1] = ESC /\ d.err = ""
    THEN d.skip + EscapedLenFrom(s, i + d.skip)
    ELSE EscapedLenFrom(s, i + 1)

EscapedLenFrom(s, i) ==
    IF i >= Len(s) THEN 0 ELSE EscapedLenAt(s, i, DecodeColor(Slice(s, i, Len(s))))

\* EscapedLen: the total length of the escape sequences of s
EscapedLen(s) == EscapedLenFrom(s, 0)

RECURSIVE UnescapeFrom(_, _)
\* a turn that leaves the m of the sequence in the text
UnescapeAtKeepM(s, i, d) ==
    IF s[i + 1] = ESC /\ d.err = ""
    THEN UnescapeFrom(s, i + d.skip - 1)
    ELSE <<s[i + 1]>> \o UnescapeFrom(s, i + 1)

\* a turn that removes a sequence and keeps the rest of the text as it is
UnescapeAtFirst(s, i, d) ==
    IF s[i + 1] = ESC /\ d.err = ""
    THEN Slice(s, i + d.skip, Len(s))
    ELSE <<s[i + 1]>> \o UnescapeFrom(s, i + 1)

\* one turn of Unescape's loop at offset i; d is what DecodeColor returned
UnescapeAt(s, i, d) ==
    IF s[i + 1] = ESC /\ d.err = ""
    THEN UnescapeFrom(s, i + d.skip)
    ELSE <<s[i + 1]>> \o UnescapeFrom(s, i + 1)

UnescapeFrom(s, i) ==
    IF i >= Len(s) THEN <<>> ELSE UnescapeAt(s, i, DecodeColor(Slice(s, i, Len(s))))

\* Unescape: s without its escape sequences
Unescape(s) == UnescapeFrom(s, 0)

(***************************************************************************)
(* Cells, windows and frames.  A frame is what a piece of queue-context    *)
(* code works on: the window, the backend's caret, and whether the code    *)
(* has panicked.                                                           *)
(***************************************************************************)
ZeroCell == [Ch |-> NUL, Fg |-> 0, Bg |-> 0, dirty |-> FALSE]

\* make([]Cell, n)
MakeCells(n) == [k \in 1..n |-> ZeroCell]

Attributes(f, b) == [Fg |-> f, Bg |-> b]

defaultAttributes == Attributes(fg, bg)

Frame(w, cur) == [w |-> w, cur |-> cur, panic |-> FALSE]

Panicked(F) == [F EXCEPT !.panic = TRUE]

\* termbox.SetCursor through setCursor
setCursor(F, x, y) == [F EXCEPT !.cur = <<x, y>>]

\* Window.setCell
setCell(F, x, y, c) ==
    IF F.panic THEN F
    ELSE IF x + (y * F.w.x) < 0 \/ x + (y * F.w.x) >= Len(F.w.backingStore) THEN Panicked(F)
    ELSE [F EXCEPT !.w.backingStore[x + (y * F.w.x) + 1] = [c EXCEPT !.dirty = TRUE]]

RECURSIVE printLoop(_, _, _, _, _, _, _)
\* one turn of the loop of Window.printf; d is what DecodeColor returned
printAt(F, x, y, c, out, i, xx, d) ==
    IF out[i + 1] = ESC /\ d.err = ""
    THEN printLoop(F, x, y, [c EXCEPT !.Fg = d.Fg, !.Bg = d.Bg], out, i + d.skip, xx)
    ELSE printLoop(setCell(F, x + xx, y, [c EXCEPT !.Ch = out[i + 1]]),
                   x, y, [c EXCEPT !.Ch = out[i + 1]], out, i + 1, xx + 1)

\* the loop of Window.printf: i the offset in out, xx the cells written
printLoop(F, x, y, c, out, i, xx) ==
    IF F.panic \/ i >= Len(out) THEN F
    ELSE IF x + xx + 1 > F.w.x - x THEN F
    ELSE printAt(F, x, y, c, out, i, xx, DecodeColor(Slice(out, i, Len(out))))

\* Window.printf with the text already formatted
printf(F, x, y, a, out) ==
    printLoop(F, x, y, [ZeroCell EXCEPT !.Fg = a.Fg, !.Bg = a.Bg], out, 0, 0)

(***************************************************************************)
(* Widgets.  Every widget is a record of one shape: the Widget base (x, y) *)
(* and the fields of Label and Edit; kind tells which type it is.  The     *)
(* target of an Edit, a *string the application owns, is kept with it.     *)
(***************************************************************************)
\* NewLabel, NewEdit: a widget with Go's zero values
NewWidget(kind, x, y) ==
    [kind |-> kind, x |-> x, y |-> y, trueX |-> 0, trueY |-> 0, trueW |-> 0,
     text |-> <<>>, status |-> FALSE, justify |-> JustifyLeft,
     visibility |-> VisibilityGet, attr |-> Attributes(0, 0),
     target |-> <<>>, display |-> <<>>, at |-> 0, width |-> 0,
     cx |-> 0, cy |-> 0, prevX |-> 0, prevY |-> 0]

\* NewList: a List with Go's zero values
NewList(x, y) ==
    [kind |-> "list", x |-> x, y |-> y, width |-> 0, height |-> 0, trueW |-> 0,
     trueH |-> 0, trueX |-> 0, trueY |-> 0, at |-> 0, paging |-> FALSE,
     attr |-> Attributes(0, 0), content |-> <<>>, visibility |-> VisibilityGet]

Wd(F, i) == F.w.widgets[i + 1]

PutWd(F, i, e) == [F EXCEPT !.w.widgets[i + 1] = e]

\* Window.AddWidget for a registered widget type: the new widget's index is
\* len(w.widgets) before the call
AddWidget(F, kind, x, y) ==
    [F EXCEPT !.w.widgets = Append(@, IF kind = "list" THEN NewList(x, y)
                                      ELSE NewWidget(kind, x, y))]

\* --------------------------------------------------------------- Label
\* Label.Resize on the label l of window w
LabelResized(l, w) ==
    [l EXCEPT !.trueX = l.x, !.trueY = IF l.y < 0 THEN w.y + l.y ELSE l.y]

LabelResize(F, i) == PutWd(F, i, LabelResized(Wd(F, i), F.w))

\* what Label.clear prints, or Label.Render for a hidden label
LabelClear(F, i) ==
    IF F.w.x < 0 THEN Panicked(F)
    ELSE printf(F, Wd(F, i).trueX, Wd(F, i).trueY, defaultAttributes, Repeat(" ", F.w.x))

\* the text Label.Render prints for a status: spacing is the room left
StatusText(l, spacing) ==
    CASE l.justify = JustifyRight -> Repeat(" ", spacing) \o l.text
      [] l.justify = JustifyCenter ->
            Repeat(" ", spacing \div 2) \o l.text
                \o Repeat(" ", (spacing \div 2) + (spacing % 2))
      [] l.justify = JustifyLeft -> l.text \o Repeat(" ", spacing)
      [] OTHER -> l.text

\* Label.Render of a visible label l
LabelShow(F, l) ==
    printf(F, IF l.status THEN 0 ELSE l.trueX, l.trueY, l.attr,
           IF l.status
           THEN StatusText(l, Max(F.w.x - Len(l.text) + EscapedLen(l.text), 0))
           ELSE l.text)

LabelRender(F, i) ==
    IF F.panic THEN F
    ELSE IF Wd(F, i).visibility = VisibilityHide THEN LabelClear(F, i)
    ELSE LabelShow(F, Wd(F, i))

\* Label.Resize, SetAttributes and SetText on the widget just added
LabelInit(F, i, text) ==
    PutWd(F, i, [LabelResized(Wd(F, i), F.w)
                    EXCEPT !.attr = defaultAttributes, !.text = text])

\* Window.AddLabel
AddLabel(F, x, y, text) == LabelInit(AddWidget(F, "label", x, y), Len(F.w.widgets), text)

\* the rest of AddStatus on the widget just added
StatusInit(F, i, j, text) ==
    PutWd(F, i, [LabelResized(Wd(F, i), F.w)
                    EXCEPT !.status = TRUE, !.justify = j,
                           !.attr = Attributes(defaultAttributes.Bg, defaultAttributes.Fg),
                           !.text = text])

\* Window.AddStatus
AddStatus(F, y, j, text) ==
    StatusInit(AddWidget(F, "label", 0, y), Len(F.w.widgets), j, text)

\* ---------------------------------------------------------------- Edit
\* Edit.clear
EditClear(F, e) ==
    IF e.trueW < 0 THEN Panicked(F)
    ELSE printf(F, e.trueX, e.trueY, defaultAttributes, Repeat(" ", e.trueW))

\* the text Edit.Render prints: display[at:] cut or filled to trueW
EditText(e) ==
    IF Len(e.display) - e.at > e.trueW
    THEN Slice(e.display, e.at, e.at + e.trueW)
    ELSE Slice(e.display, e.at, Len(e.display))
             \o Repeat(" ", e.trueW - (Len(e.display) - e.at))

\* Edit.Render of the Edit e
EditShow(F, e) ==
    IF e.visibility = VisibilityHide THEN EditClear(F, e)
    ELSE IF e.at < 0 \/ e.at > Len(e.display) THEN Panicked(F)
    ELSE IF Len(e.display) - e.at > e.trueW /\ e.trueW < 0 THEN Panicked(F)
    ELSE printf(F, e.trueX, e.trueY, e.attr, EditText(e))

EditRender(F, i) == IF F.panic THEN F ELSE EditShow(F, Wd(F, i))

\* an insert that leaves out the copy: the value stays at the end
insertAtEnd(slice, index, value) ==
    IF index < 0 \/ index > Len(slice) THEN [ok |-> FALSE, s |-> slice]
    ELSE [ok |-> TRUE, s |-> Append(slice, value)]

\* insert(slice, index, value): ok is FALSE where the Go code panics
insert(slice, index, value) ==
    IF index < 0 \/ index > Len(slice) THEN [ok |-> FALSE, s |-> slice]
    ELSE [ok |-> TRUE,
          s |-> Slice(slice, 0, index) \o <<value>> \o Slice(slice, index, Len(slice))]

\* A key event: Key is the name of termbox's special key ("" for none), Ch
\* the character (NUL for none), Mod the modifier.
Event(mod, key, ch) == [Mod |-> mod, Key |-> key, Ch |-> ch]

\* What a case of Edit.KeyHandler does to the Edit: e is the Edit after it;
\* cursor, whether it called setCursor(e.cx, e.cy); render, whether it
\* called Render; used, the value it returns; panic, whether it panicked.
Handled(e, cursor, render) ==
    [e |-> e, cursor |-> cursor, render |-> render, used |-> TRUE, panic |-> FALSE]
Unused(e) == [e |-> e, cursor |-> FALSE, render |-> FALSE, used |-> FALSE, panic |-> FALSE]
KeyPanic(e) == [e |-> e, cursor |-> FALSE, render |-> FALSE, used |-> TRUE, panic |-> TRUE]

\* the caret's index in the buffer, as KeyHandler and Resize compute it
InString(e) == e.cx - e.trueX + e.at

\* an insertion that stores the buffer in the target as well
EditInsertedStored(e, r) ==
    IF ~r.ok THEN KeyPanic(e)
    ELSE IF e.cx < e.trueW + e.trueX - 1
    THEN Handled([e EXCEPT !.display = r.s, !.target = r.s, !.cx = e.cx + 1], TRUE, TRUE)
    ELSE Handled([e EXCEPT !.display = r.s, !.target = r.s, !.at = e.at + 1], FALSE, TRUE)

\* the end of the insertion: r is what insert returned
EditInserted(e, r) ==
    IF ~r.ok THEN KeyPanic(e)
    ELSE IF e.cx < e.trueW + e.trueX - 1
    THEN Handled([e EXCEPT !.display = r.s, !.cx = e.cx + 1], TRUE, TRUE)
    ELSE Handled([e EXCEPT !.display = r.s, !.at = e.at + 1], FALSE, TRUE)

\* the last part of Edit.KeyHandler: "normal runes are displayed and stored"
EditInsert(e, ev) ==
    IF ev.Ch # NUL /\ ev.Mod # 0 /\ ev.Key = "" THEN Unused(e)
    ELSE IF ev.Ch = NUL THEN Unused(e)
    ELSE EditInserted(e, insert(e.display, InString(e), ev.Ch))

\* the "cursor left magic" of the backspace case, when cx = trueX + 1: cx1
\* is the new cx
BackspaceMagic(e, cx1) == [e EXCEPT !.cx = cx1, !.at = IF e.at >= cx1 THEN e.at - cx1 ELSE e.at]

\* the cursor arithmetic of the backspace case
BackspaceCursor(e) ==
    IF e.cx = e.trueX + 1
    THEN BackspaceMagic(e, IF e.at > e.trueW - 1 THEN e.trueW - 1 ELSE e.at + e.trueX)
    ELSE [e EXCEPT !.cx = e.cx - 1]

\* display without the character at index k
Remove(display, k) == Slice(display, 0, k) \o Slice(display, k + 1, Len(display))

\* the switch of Edit.KeyHandler
EditKey(e, ev) ==
    CASE ev.Key \in {"CtrlA", "Home"} ->
            Handled([e EXCEPT !.cx = e.trueX, !.at = 0], TRUE, TRUE)
      [] ev.Key \in {"CtrlE", "End"} ->
            IF Len(e.display) < e.trueW - 1
            THEN Handled([e EXCEPT !.cx = e.trueX + Len(e.display) - e.at], TRUE, FALSE)
            ELSE Handled([e EXCEPT !.cx = e.trueX + e.trueW - 1,
                                   !.at = Len(e.display) - e.trueW + 1], TRUE, TRUE)
      [] ev.Key = "CtrlU" ->
            Handled([e EXCEPT !.cx = e.trueX, !.at = 0, !.display = <<>>], TRUE, TRUE)
      [] ev.Key = "ArrowRight" ->
            IF e.at < 0 \/ e.at > Len(e.display) THEN KeyPanic(e)
            ELSE IF e.cx - e.trueX = Len(e.display) - e.at THEN Handled(e, FALSE, FALSE)
            ELSE IF e.cx + 1 > e.trueW + e.trueX - 1
            THEN IF Len(e.display) - e.at = 0
                 THEN Handled([e EXCEPT !.cx = e.trueW + e.trueX - 1], FALSE, FALSE)
                 ELSE Handled([e EXCEPT !.cx = e.trueW + e.trueX - 1, !.at = e.at + 1],
                              FALSE, TRUE)
            ELSE Handled([e EXCEPT !.cx = e.cx + 1], TRUE, FALSE)
      [] ev.Key = "ArrowLeft" ->
            IF e.cx - 1 < e.trueX
            THEN Handled([e EXCEPT !.cx = e.trueX, !.at = Max(e.at - 1, 0)], TRUE, TRUE)
            ELSE Handled([e EXCEPT !.cx = e.cx - 1], TRUE, FALSE)
      [] ev.Key = "Delete" ->
            IF Len(e.display) = InString(e) THEN Handled(e, FALSE, FALSE)
            ELSE IF InString(e) < 0 \/ InString(e) + 1 > Len(e.display) THEN KeyPanic(e)
            ELSE Handled([e EXCEPT !.display = Remove(e.display, InString(e))], FALSE, TRUE)
      [] ev.Key \in {"Backspace", "Backspace2"} ->
            IF InString(e) <= 0 THEN Handled(e, FALSE, FALSE)
            ELSE IF InString(e) > Len(e.display) THEN KeyPanic(e)
            ELSE Handled(BackspaceCursor([e EXCEPT !.display =
                                                    Remove(e.display, InString(e) - 1)]),
                         TRUE, TRUE)
      [] ev.Key = "Space" -> EditInsert(e, [ev EXCEPT !.Ch = " "])
      [] ev.Key = "Enter" -> Unused([e EXCEPT !.target = e.display])
      [] OTHER -> EditInsert(e, ev)

\* the calls of setCursor and Render a case of KeyHandler made, on the frame
\* G that holds the Edit after the case
EditEcho(G, i, r) ==
    IF r.render
    THEN EditRender(IF r.cursor THEN setCursor(G, r.e.cx, r.e.cy) ELSE G, i)
    ELSE IF r.cursor THEN setCursor(G, r.e.cx, r.e.cy) ELSE G

\* Edit.KeyHandler from what its switch did
EditKeyed(F, i, r) ==
    [F |-> IF r.panic THEN Panicked(F) ELSE EditEcho(PutWd(F, i, r.e), i, r),
     used |-> r.used]

\* Edit.KeyHandler: the frame after the call and the value returned
EditKeyHandler(F, i, ev) ==
    IF F.panic THEN [F |-> F, used |-> FALSE] ELSE EditKeyed(F, i, EditKey(Wd(F, i), ev))

\* Edit.Focus on the Edit e
EditFocused(e) ==
    IF e.cx = -1 \/ e.cy = -1 THEN [e EXCEPT !.cx = e.trueX, !.cy = e.trueY, !.at = 0] ELSE e

\* Edit.Focus
EditFocus(F, i) ==
    setCursor(PutWd(F, i, EditFocused(Wd(F, i))),
              EditFocused(Wd(F, i)).cx, EditFocused(Wd(F, i)).cy)

\* a SetText that ignores end and puts the caret at the start
EditSetTextStart(F, i, s, end) ==
    EditKeyHandler(PutWd(F, i, [Wd(F, i) EXCEPT !.target = s, !.display = s, !.at = 0]),
                   i, Event(0, "CtrlA", NUL)).F

\* Edit.SetText
EditSetText(F, i, s, end) ==
    EditKeyHandler(PutWd(F, i, [Wd(F, i) EXCEPT !.target = s, !.display = s, !.at = 0]),
                   i, Event(0, IF end THEN "CtrlE" ELSE "CtrlA", NUL)).F

\* Edit.Resize up to "reset cursor and at": trueX, trueY and trueW in a
\* window of wx columns and wy lines
EditPlaced(e, wx, wy) ==
    [e EXCEPT !.trueX = e.x,
              !.trueY = IF e.y < 0 THEN wy + e.y + 1 ELSE e.y,
              !.trueW = IF e.width < 1 THEN wx - e.x + e.width ELSE e.width]

\* a "reset cursor and at" that shifts on every shrink, wherever the caret
EditResizeCursorAlways(e, wx, inString) ==
    IF Len(e.display) = inString
    THEN IF Len(e.display) < e.trueW - 1
         THEN [e EXCEPT !.cx = e.trueX + Len(e.display), !.at = 0]
         ELSE [e EXCEPT !.cx = e.trueX + e.trueW - 1, !.at = Len(e.display) - e.trueW + 1]
    ELSE IF inString <= 0 THEN [e EXCEPT !.at = 0, !.cx = e.trueX]
    ELSE IF e.prevX <= wx THEN e
    ELSE [e EXCEPT !.cx = e.cx - (e.prevX - wx), !.at = e.at + (e.prevX - wx)]

\* the "reset cursor and at" part of Edit.Resize for a changed window width;
\* inString is the caret's buffer index before the call
EditResizeCursor(e, wx, inString) ==
    IF Len(e.display) = inString
    THEN IF Len(e.display) < e.trueW - 1
         THEN [e EXCEPT !.cx = e.trueX + Len(e.display), !.at = 0]
         ELSE [e EXCEPT !.cx = e.trueX + e.trueW - 1, !.at = Len(e.display) - e.trueW + 1]
    ELSE IF inString <= 0 THEN [e EXCEPT !.at = 0, !.cx = e.trueX]
    ELSE IF e.prevX <= wx THEN e
    ELSE IF e.cx >= wx
    THEN [e EXCEPT !.cx = e.cx - (e.prevX - wx), !.at = e.at + (e.prevX - wx)]
    ELSE e

\* "if e.w.y != e.prevY"
EditResizeY(e, wy) == IF wy # e.prevY THEN [e EXCEPT !.cy = e.trueY, !.prevY = wy] ELSE e

\* "if e.w.x != e.prevX"
EditResizeX(e, wx, inString) ==
    IF wx # e.prevX THEN [EditResizeCursor(e, wx, inString) EXCEPT !.prevX = wx] ELSE e

\* Edit.Resize on the Edit e
EditResized(e, wx, wy) ==
    EditResizeX(EditResizeY(EditPlaced(e, wx, wy), wy), wx, InString(e))

\* Edit.Resize
EditResize(F, i) == PutWd(F, i, EditResized(Wd(F, i), F.w.x, F.w.y))

\* AddEdit after AddWidget: width and the sizes saved, Resize, the cursor
EditInit(F, i, width) ==
    PutWd(F, i, [EditResized([Wd(F, i) EXCEPT !.width = width, !.prevX = F.w.x,
                                               !.prevY = F.w.y], F.w.x, F.w.y)
                    EXCEPT !.cx = -1, !.cy = -1])

\* the end of AddEdit: "flip attributes"
EditFlip(F, i) ==
    IF F.panic THEN F
    ELSE PutWd(F, i, [Wd(F, i) EXCEPT !.attr = Attributes(defaultAttributes.Bg,
                                                          defaultAttributes.Fg)])

\* Window.AddEdit
AddEdit(F, x, y, width, target) ==
    EditFlip(EditSetText(EditInit(AddWidget(F, "edit", x, y), Len(F.w.widgets), width),
                         Len(F.w.widgets), target, TRUE),
             Len(F.w.widgets))

\* ---------------------------------------------------------------- List
\* the capacity AddList gives content
ListCap == 1000

\* Location
Top == 0
Bottom == 1
Up == 2
Down == 3
Current == 4

\* List.Resize on the List l of window w
ListResized(l, w) ==
    [l EXCEPT !.trueX = l.x, !.trueY = l.y,
              !.trueW = IF l.width < 1 THEN w.x + l.width ELSE l.width,
              !.trueH = IF l.height < 1 THEN w.y + l.height - 1 ELSE l.height]

\* List.Resize
ListResize(F, i) == PutWd(F, i, ListResized(Wd(F, i), F.w))

\* AddList after AddWidget
ListInit(F, i, width, height) ==
    PutWd(F, i, [ListResized([Wd(F, i) EXCEPT !.width = width, !.height = height], F.w)
                    EXCEPT !.attr = defaultAttributes])

\* Window.AddList
AddList(F, x, y, width, height) ==
    ListInit(AddWidget(F, "list", x, y), Len(F.w.widgets), width, height)

\* List.Append with the line already formatted, for fewer than ListCap lines
ListAppended(l, s) ==
    [l EXCEPT !.content = Append(@, s),
              !.at = IF l.paging THEN @ ELSE Max(Len(l.content) + 1 - l.trueH, 0)]

\* the switch of a Display whose Down never turns to Display(Bottom)
ListMovedPastEnd(l, where) ==
    CASE where = Top ->
            IF Len(l.content) > l.trueH THEN [l EXCEPT !.at = 0, !.paging = TRUE] ELSE l
      [] where = Bottom ->
            [l EXCEPT !.at = Max(Len(l.content) - l.trueH, 0), !.paging = FALSE]
      [] where = Up ->
            [l EXCEPT !.at = Max(l.at - l.trueH + 1, 0), !.paging = TRUE]
      [] where = Down ->
            [l EXCEPT !.at = l.at + l.trueH - 1, !.paging = TRUE]
      [] OTHER -> l

\* the switch of List.Display; Down may call Display(Bottom)
ListMoved(l, where) ==
    CASE where = Top ->
            IF Len(l.content) > l.trueH THEN [l EXCEPT !.at = 0, !.paging = TRUE] ELSE l
      [] where = Bottom ->
            [l EXCEPT !.at = Max(Len(l.content) - l.trueH, 0), !.paging = FALSE]
      [] where = Up ->
            [l EXCEPT !.at = Max(l.at - l.trueH + 1, 0), !.paging = TRUE]
      [] where = Down ->
            IF l.at + l.trueH - 1 + l.trueH > Len(l.content)
            THEN [l EXCEPT !.at = Max(Len(l.content) - l.trueH, 0), !.paging = FALSE]
            ELSE [l EXCEPT !.at = l.at + l.trueH - 1, !.paging = TRUE]
      [] OTHER -> l

\* c[l.at : l.at+l.trueH]: the lines past len(c), within the capacity, are
\* empty strings
ListView(l) ==
    [k \in 1..l.trueH |-> IF l.at + k <= Len(l.content) THEN l.content[l.at + k] ELSE <<>>]

\* The loop of Display over one line s for the width W.  r holds the loop's
\* variables i, printWidth (pw), start, lastColor, leftover and cc, and the
\* buffer (rows).
WrapStart(rows) ==
    [i |-> 0, pw |-> 0, start |-> 0, lastColor |-> <<>>, leftover |-> <<>>, cc |-> <<>>,
     rows |-> rows, panic |-> FALSE]

\* after the loop: "done clipping, next line"
WrapEnd(W, r) ==
    IF r.leftover = <<>> THEN r
    ELSE IF W - r.pw < 0 THEN [r EXCEPT !.panic = TRUE]
    ELSE [r EXCEPT !.rows = Append(@, r.cc \o r.leftover \o Repeat(" ", W - r.pw))]

RECURSIVE WrapLoop(_, _, _), WrapAt(_, _, _, _), WrapRune(_, _, _)
\* a turn of the loop for a rune that is no escape sequence
WrapRune(s, W, r) ==
    IF r.pw + 1 > W - 1
    THEN IF r.i + 1 = Len(s)
         THEN WrapEnd(W, [r EXCEPT !.rows = Append(@, r.lastColor
                                                        \o Slice(s, r.start, r.i + 1)),
                                   !.i = r.i + 1, !.start = r.i + 1, !.pw = 0,
                                   !.cc = r.lastColor, !.leftover = <<>>])
         ELSE WrapLoop(s, W, [r EXCEPT !.rows = Append(@, r.lastColor
                                                           \o Slice(s, r.start, r.i + 1)),
                                      !.i = r.i + 1, !.start = r.i + 1, !.pw = 0,
                                      !.cc = r.lastColor])
    ELSE IF r.i + 1 < Len(s) THEN WrapLoop(s, W, [r EXCEPT !.i = r.i + 1, !.pw = r.pw + 1])
    ELSE WrapEnd(W, [r EXCEPT !.i = r.i + 1, !.pw = r.pw + 1,
                              !.leftover = Slice(s, r.start, r.i + 1)])

\* a turn of the loop at offset r.i; d is what DecodeColor returned
WrapAt(s, W, r, d) ==
    IF s[r.i + 1] = ESC /\ d.err = ""
    THEN WrapLoop(s, W, [r EXCEPT !.lastColor = Slice(s, r.i, r.i + d.skip),
                                 !.i = r.i + d.skip,
                                 !.leftover = Slice(s, r.start, r.i + d.skip)])
    ELSE WrapRune(s, W, r)

WrapLoop(s, W, r) ==
    IF r.i >= Len(s) THEN WrapEnd(W, r)
    ELSE WrapAt(s, W, r, DecodeColor(Slice(s, r.i, Len(s))))

RECURSIVE WrapLines(_, _, _, _)
\* the buffer Display builds from the lines c[k..], r being the state the
\* lines before left
WrapLines(c, W, k, r) ==
    IF r.panic \/ k > Len(c) THEN r
    ELSE WrapLines(c, W, k + 1, WrapLoop(c[k], W, WrapStart(r.rows)))

\* buffer[len(buffer)-h:] when the buffer has more than h rows
LastRows(rows, h) == IF Len(rows) > h THEN Slice(rows, Len(rows) - h, Len(rows)) ELSE rows

RECURSIVE PaintRows(_, _, _, _)
\* the last loop of Display: printf of the rows from row i of the buffer
PaintRows(F, l, rows, i) ==
    IF F.panic \/ i >= Len(rows) THEN F
    ELSE PaintRows(printf(F, 0, l.trueY + i, l.attr, rows[i + 1]), l, rows, i + 1)

\* Display from the buffer b
ListPaint(F, l, b) ==
    IF b.panic THEN Panicked(F) ELSE PaintRows(F, l, LastRows(b.rows, l.trueH), 0)

\* Display after its switch, for the List l
ListShow(F, l) ==
    IF l.at < 0 \/ l.trueH < 0 \/ l.at + l.trueH > ListCap THEN Panicked(F)
    ELSE ListPaint(F, l, WrapLines(ListView(l), l.trueW, 1, WrapStart(<<>>)))

ListShown(G, i) == ListShow(G, Wd(G, i))

\* List.Display
ListDisplay(F, i, where) ==
    IF F.panic THEN F
    ELSE IF Len(Wd(F, i).content) = 0 \/ Wd(F, i).visibility = VisibilityHide THEN F
    ELSE ListShown(PutWd(F, i, ListMoved(Wd(F, i), where)), i)

\* List.Render
ListRender(F, i) == ListDisplay(F, i, Current)

\* ----------------------------------------------- the Widgeter interface
CanFocus(wd) == wd.kind = "edit"

WidgetFocus(F, i) == IF Wd(F, i).kind = "edit" THEN EditFocus(F, i) ELSE F

WidgetRender(F, i) ==
    IF Wd(F, i).kind = "edit" THEN EditRender(F, i)
    ELSE IF Wd(F, i).kind = "list" THEN ListRender(F, i)
    ELSE LabelRender(F, i)

WidgetResize(F, i) ==
    IF Wd(F, i).kind = "edit" THEN EditResize(F, i)
    ELSE IF Wd(F, i).kind = "list" THEN ListResize(F, i)
    ELSE LabelResize(F, i)

WidgetKeyHandler(F, i, ev) ==
    IF Wd(F, i).kind = "edit" THEN EditKeyHandler(F, i, ev) ELSE [F |-> F, used |-> FALSE]

(***************************************************************************)
(* Windows.  A window is [id, x, y, mgr, backingStore, widgets, focus];    *)
(* mgr names its Windower.  The Windowers of the model are those of the    *)
(* demo application in kind: their Render does nothing and their Init adds *)
(* the window's widgets.                                                   *)
(***************************************************************************)
\* a window whose store has one row only
MakeWindowOneRow(id, mgr, mx, my) ==
    [id |-> id, x |-> mx, y |-> my, mgr |-> mgr, backingStore |-> MakeCells(mx),
     widgets |-> <<>>, focus |-> -1]

\* the &Window{...} literal of NewWindow
MakeWindow(id, mgr, mx, my) ==
    [id |-> id, x |-> mx, y |-> my, mgr |-> mgr, backingStore |-> MakeCells(mx * my),
     widgets |-> <<>>, focus |-> -1]

RECURSIVE resizeWidgets(_, _)
resizeWidgets(F, i) ==
    IF F.panic \/ i >= Len(F.w.widgets) THEN F ELSE resizeWidgets(WidgetResize(F, i), i + 1)

\* a resize that reuses the old store when it is large enough
resizeReuseStore(F, x, y) ==
    IF F.panic THEN F
    ELSE IF x * y < 0 THEN Panicked(F)
    ELSE IF x * y <= Len(F.w.backingStore)
    THEN resizeWidgets([F EXCEPT !.w.x = x, !.w.y = y], 0)
    ELSE resizeWidgets([F EXCEPT !.w.x = x, !.w.y = y, !.w.backingStore = MakeCells(x * y)], 0)

\* Window.resize
resize(F, x, y) ==
    IF F.panic THEN F
    ELSE IF x * y < 0 THEN Panicked(F)
    ELSE resizeWidgets([F EXCEPT !.w.x = x, !.w.y = y, !.w.backingStore = MakeCells(x * y)], 0)

RECURSIVE renderWidgets(_, _)
renderWidgets(F, i) ==
    IF F.panic \/ i >= Len(F.w.widgets) THEN F ELSE renderWidgets(WidgetRender(F, i), i + 1)

\* the index of the first widget at or after from that can focus, -1 if none
FirstFocusable(ws, from) ==
    IF \E k \in from..(Len(ws) - 1) : CanFocus(ws[k + 1])
    THEN CHOOSE k \in from..(Len(ws) - 1) :
             CanFocus(ws[k + 1]) /\ \A j \in from..(k - 1) : ~CanFocus(ws[j + 1])
    ELSE -1

\* the largest index in lo..hi of a widget that can focus, -1 if none
LastFocusable(ws, lo, hi) ==
    IF \E k \in lo..hi : CanFocus(ws[k + 1])
    THEN CHOOSE k \in lo..hi : CanFocus(ws[k + 1]) /\ \A j \in (k + 1)..hi : ~CanFocus(ws[j + 1])
    ELSE -1

\* setCursor(-1, -1), w.focus = k and widget.Focus()
FocusOn(F, k) == WidgetFocus([setCursor(F, -1, -1) EXCEPT !.w.focus = k], k)

\* Window.focusWidget
focusWidget(F) ==
    IF F.panic THEN F
    ELSE IF F.w.focus < 0
    THEN IF FirstFocusable(F.w.widgets, 0) = -1 THEN setCursor(F, -1, -1)
         ELSE FocusOn(F, FirstFocusable(F.w.widgets, 0))
    ELSE IF F.w.focus > Len(F.w.widgets) THEN setCursor(F, -1, -1)
    ELSE IF F.w.focus = Len(F.w.widgets) THEN Panicked(setCursor(F, -1, -1))
    ELSE WidgetFocus(setCursor(F, -1, -1), F.w.focus)

\* a focusNext that takes the widget after the current one, focusable or not
focusNextAny(F) ==
    IF F.panic THEN F
    ELSE IF F.w.focus < 0 THEN focusWidget(F)
    ELSE IF F.w.focus + 1 >= Len(F.w.widgets) THEN focusWidget([F EXCEPT !.w.focus = -1])
    ELSE FocusOn(F, F.w.focus + 1)

\* Window.focusNext
focusNext(F) ==
    IF F.panic THEN F
    ELSE IF F.w.focus < 0 THEN focusWidget(F)
    ELSE IF F.w.focus + 1 > Len(F.w.widgets) THEN Panicked(F)
    ELSE IF FirstFocusable(F.w.widgets, F.w.focus + 1) # -1
    THEN FocusOn(F, FirstFocusable(F.w.widgets, F.w.focus + 1))
    ELSE focusWidget([F EXCEPT !.w.focus = -1])

\* Window.focusPrevious after "w.focus--": f is the decremented index and n
\* the number of widgets
focusBefore(F, f, n) ==
    IF f < 0 THEN focusWidget(F)
    ELSE IF f >= 1 /\ f >= n THEN Panicked(F)
    ELSE IF LastFocusable(F.w.widgets, 1, f) # -1
    THEN FocusOn(F, LastFocusable(F.w.widgets, 1, f))
    ELSE IF LastFocusable(F.w.widgets, f + 1, n - 1) # -1
    THEN FocusOn(F, LastFocusable(F.w.widgets, f + 1, n - 1))
    ELSE F

\* Window.focusPrevious
focusPrevious(F) ==
    IF F.panic THEN F
    ELSE focusBefore([F EXCEPT !.w.focus = F.w.focus - 1], F.w.focus - 1, Len(F.w.widgets))

\* Window.render; the Windower's Render does nothing
render(F) == focusWidget(renderWidgets(F, 0))

\* what Window.keyHandler returns when it calls the widget's KeyHandler: r
\* is what that returned, widget the widget's index
Routed(r, widget) == [F |-> r.F, used |-> r.used, widget |-> widget]

\* a key handler that routes to the window's first widget
WindowKeyHandlerFirst(F, ev) ==
    IF F.w.focus < 0 \/ F.w.focus > Len(F.w.widgets)
    THEN [F |-> F, used |-> FALSE, widget |-> -1]
    ELSE IF F.w.focus = Len(F.w.widgets)
    THEN [F |-> Panicked(F), used |-> FALSE, widget |-> -1]
    ELSE Routed(WidgetKeyHandler(F, 0, ev), 0)

\* Window.keyHandler: the frame after the call, whether the event was used,
\* and the index of the widget returned (-1 for nil); the Windower returned
\* is F.w.mgr
WindowKeyHandler(F, ev) ==
    IF F.w.focus < 0 \/ F.w.focus > Len(F.w.widgets)
    THEN [F |-> F, used |-> FALSE, widget |-> -1]
    ELSE IF F.w.focus = Len(F.w.widgets)
    THEN [F |-> Panicked(F), used |-> FALSE, widget |-> -1]
    ELSE Routed(WidgetKeyHandler(F, F.w.focus, ev), F.w.focus)

\* the cells flush sends to the backend: <<x, y, Ch, Fg, Bg>> of every dirty
\* cell of w
DirtyCells(w) ==
    { <<k % w.x, k \div w.x, w.backingStore[k + 1].Ch, w.backingStore[k + 1].Fg,
        w.backingStore[k + 1].Bg>> :
      k \in { j \in 0..(w.x * w.y - 1) : w.backingStore[j + 1].dirty } }

\* flush on the focused window w: its cells afterwards
\* a flush that leaves the dirty flags set
FlushCellsKeepDirty(w) == w.backingStore

FlushCells(w) ==
    [k \in 1..Len(w.backingStore) |->
        IF k <= w.x * w.y THEN [w.backingStore[k] EXCEPT !.dirty = FALSE]
        ELSE w.backingStore[k]]

(***************************************************************************)
(* State.                                                                  *)
(***************************************************************************)
VARIABLES
    \* the package's globals
    maxX, maxY, termRaw, keyHandler, rawMtx, work, lastWindowID, focus, prevFocus,
    windows, keyC, windower2window,
    \* the locals of init that its two goroutines share
    execute, fa,
    \* every Window allocated, by id (windows holds the ids in the registry)
    wins,
    \* the goroutines: the one that collects closures from work, the worker
    \* that executes them, the key handler, and the application's
    coll, exec, listener, callers,
    \* the backend: the terminal's size, whether termbox is initialized, the
    \* caret, the cells the last flush sent
    term, tbOpen, cur, sent,
    \* the process has ended (a panic, Panic or Exit)
    crashed,
    \* history: the closures in the order work accepted them and in the order
    \* the worker started them, and how many it finished; who called the
    \* backend and who wrote toolkit
    \* state; how often each window's Windower ran Init and on which goroutine;
    \* what happened to the last key event the worker handled; the number of
    \* Init calls that succeeded since the flag termRaw was last cleared
    accepted, executed, finished, backendBy, stateBy, inits, lastKey, inited,
    \* counters that bound the run
    nextId, nKeys, nResizes, nFails

globalVars == <<maxX, maxY, termRaw, keyHandler, rawMtx, lastWindowID, focus, prevFocus,
                windows, keyC, windower2window>>
queueVars == <<work, execute, fa, coll, exec>>
threadVars == <<listener, callers>>
backendVars == <<term, tbOpen, sent>>
historyVars == <<accepted, executed, finished, backendBy, stateBy, lastKey, inited>>
boundVars == <<nextId, nKeys, nResizes, nFails>>
vars == <<globalVars, queueVars, threadVars, backendVars, historyVars, boundVars,
          wins, inits, cur, crashed>>

Nil == -1

(***************************************************************************)
(* Bounds of the model.                                                    *)
(***************************************************************************)
\* terminal widths are MinWidth..MaxWidth, heights 1..MaxHeight
MinWidth == 4
MaxWidth == 6
MaxHeight == 2
\* an Edit's anchor column is 0..MaxAnchor
MaxAnchor == 1
\* the target string of an Edit has at most MaxText characters, and
\* characters are typed into a buffer of fewer than MaxLen
MaxText == 2
MaxLen == 3

Sizes == (MinWidth..MaxWidth) \X (1..MaxHeight)

(***************************************************************************)
(* What the queued closures do, as functions of the frame.                 *)
(***************************************************************************)
\* resizeAndRender(w) for w # nil, up to its call of flush; size is what
\* termbox.Size() returns
resizeAndRender(F, size) == render(resize(F, size[1], size[2]))

\* the Windowers of the model; the application's goroutines
Mgrs == {"mw", "sw"}
\* Callers are the goroutines that call Init; Apps, those that make every
\* other call as well
Callers == {"a1", "a2"}
Apps == {"a1"}

\* A queued closure: what it does (kind) and what it captured: the caller
\* whose channel it answers, the event, the window, the Windower.  id numbers
\* the closures in the order they were made; it is not part of the program.
Closure(id, kind, by, ev, win, mgr) ==
    [id |-> id, kind |-> kind, by |-> by, ev |-> ev, win |-> win, mgr |-> mgr]

NoEvent == Event(0, "", NUL)
NoClosure == Closure(0, "", "", NoEvent, Nil, "")
NoObs == [raw |-> FALSE, clean |-> FALSE, inited |-> 0, win |-> Nil, registered |-> FALSE,
          wfocus |-> Nil, cells |-> 0, size |-> <<0, 0>>, term |-> <<0, 0>>,
          ninit |-> [n |-> 0, by |-> ""]]
NoKey == [id |-> 0, ev |-> NoEvent, focus |-> Nil, index |-> Nil, called |-> {},
          used |-> FALSE, puts |-> 0, key |-> <<>>]

\* the state init() leaves: the queue and its two goroutines
QueueInit ==
    /\ work = <<>> /\ execute = 0 /\ fa = <<>>
    /\ coll = [pc |-> "recv", f |-> NoClosure]
    /\ exec = [pc |-> "wait", f |-> NoClosure]

ThreadInit ==
    /\ listener = "off"
    /\ callers = [c \in Callers |-> [pc |-> "idle", ret |-> "", obs |-> NoObs]]

HistoryInit ==
    /\ accepted = <<>> /\ executed = <<>> /\ finished = 0
    /\ backendBy = {} /\ stateBy = {} /\ lastKey = NoKey /\ inited = 0
    /\ nextId = 1 /\ nKeys = 0 /\ nResizes = 0 /\ nFails = 0

(***************************************************************************)
(* Spec: the toolkit at run time.  The application's goroutines call Init, *)
(* Deinit, NewWindow, Focus, FocusPrevious, Flush, Panic and Exit; the key *)
(* handler goroutine queues a closure per key and resize event; the        *)
(* collector goroutine moves closures from work to fa and the worker       *)
(* goroutine executes them.  A closure runs as one step up to each place   *)
(* where it can block: a channel send or the mutex rawMtx.                 *)
(***************************************************************************)
\* capacities of work and keyC (32 and 1024 in init, scaled down), and the
\* numbers of closures, key events, resize events and failures of
\* termbox.Init in a run
WorkCap == 2
KeyCap == 1
MaxClosures == 3
MaxKeys == 2
MaxResizes == 1
MaxFails == 1

TermSizes == {<<MinWidth, 1>>, <<MaxWidth, MaxHeight>>}
RunEvents == {Event(0, "", "a"), Event(0, "Enter", NUL)}

\* Windower.Init of the model's Windowers: "mw" adds a Label and an Edit,
\* "sw" a Label only
MgrInit(F, m) ==
    IF m = "mw" THEN AddEdit(AddLabel(F, 3, 0, <<"L">>), 0, 0, 3, <<>>)
    ELSE AddLabel(F, 0, 0, <<"s">>)

\* the Key value the key closure sends: Window is the Windower ("" for nil),
\* Widget the widget as <<window id, index>> (<<>> for nil)
MakeKey(ev, window, widget) ==
    [Mod |-> ev.Mod, Key |-> ev.Key, Ch |-> ev.Ch, Window |-> window, Widget |-> widget]

Init ==
    /\ QueueInit /\ ThreadInit /\ HistoryInit
    /\ term \in TermSizes
    /\ maxX = 0 /\ maxY = 0 /\ termRaw = FALSE /\ keyHandler = FALSE /\ rawMtx = ""
    /\ lastWindowID = 0 /\ focus = Nil /\ prevFocus = Nil /\ windows = {}
    /\ keyC = <<>> /\ windower2window = [m \in Mgrs |-> Nil]
    /\ wins = <<>> /\ inits = <<>>
    /\ tbOpen = FALSE /\ cur = <<-1, -1>> /\ sent = {} /\ crashed = FALSE

winVars == <<wins, inits, lastWindowID, windows, windower2window>>
focusVars == <<focus, prevFocus>>
sizeVars == <<maxX, maxY>>
rawVars == <<termRaw, keyHandler, rawMtx, inited, listener, tbOpen>>
screenVars == <<cur, sent>>
logVars == <<backendBy, stateBy>>
sendVars == <<work, accepted, nextId>>
collVars == <<execute, fa, coll>>
execVars == <<exec, executed, finished>>
keyVars == <<keyC, lastKey>>
envVars == <<term, nKeys, nResizes, nFails>>

\* Queue(f): the send on work, which blocks while work is full
Queue(f) ==
    /\ Len(work) < WorkCap /\ nextId <= MaxClosures
    /\ work' = Append(work, f)
    /\ accepted' = Append(accepted, f.id)
    /\ nextId' = nextId + 1

Idle(c) == callers[c].pc = "idle"
Return(c, ret, obs) == callers' = [callers EXCEPT ![c] = [pc |-> "idle", ret |-> ret, obs |-> obs]]
Goto(c, pc) == callers' = [callers EXCEPT ![c].pc = pc]

\* an Init that takes no mutex
InitLockNoMutex(c) ==
    /\ ~crashed
    /\ Idle(c)
    /\ IF termRaw
       THEN Return(c, "already", [NoObs EXCEPT !.raw = TRUE]) /\ UNCHANGED rawMtx
       ELSE Goto(c, "init") /\ rawMtx' = c
    /\ UNCHANGED <<winVars, focusVars, sizeVars, termRaw, keyHandler, inited, listener,
                   tbOpen, screenVars, logVars, sendVars, collVars, execVars, keyVars,
                   envVars, crashed>>

\* ------------------------------------------------ the application's calls
\* Init up to its test of termRaw, with rawMtx held
InitLock(c) ==
    /\ ~crashed
    /\ Idle(c) /\ rawMtx = ""
    /\ IF termRaw
       THEN Return(c, "already", [NoObs EXCEPT !.raw = TRUE]) /\ UNCHANGED rawMtx
       ELSE Goto(c, "init") /\ rawMtx' = c
    /\ UNCHANGED <<winVars, focusVars, sizeVars, termRaw, keyHandler, inited, listener,
                   tbOpen, screenVars, logVars, sendVars, collVars, execVars, keyVars,
                   envVars, crashed>>

\* the rest of Init: termbox.Init fails, or the backend is set up, the key
\* handler launched and the flag set; the deferred Unlock
InitRun(c) ==
    /\ ~crashed
    /\ callers[c].pc = "init"
    /\ rawMtx' = ""
    /\ \/ /\ nFails < MaxFails
          /\ nFails' = nFails + 1
          /\ Return(c, "fail", NoObs)
          /\ backendBy' = backendBy \cup {<<"caller", "Init">>}
          /\ UNCHANGED <<sizeVars, termRaw, keyHandler, inited, listener, tbOpen,
                         screenVars, stateBy>>
       \/ /\ tbOpen' = TRUE
          /\ cur' = <<-1, -1>> /\ sent' = {}
          /\ maxX' = term[1] /\ maxY' = term[2]
          /\ keyHandler' = TRUE
          /\ listener' = IF keyHandler THEN listener ELSE "on"
          /\ termRaw' = TRUE
          /\ inited' = inited + 1
          /\ Return(c, "ok", NoObs)
          /\ backendBy' = backendBy \cup {<<"caller", "Init">>, <<"caller", "Clear">>, <<"caller", "Size">>,
                                          <<"caller", "Flush">>}
          /\ stateBy' = stateBy \cup {<<"caller", "maxX">>, <<"caller", "termRaw">>}
          /\ UNCHANGED nFails
    /\ UNCHANGED <<winVars, focusVars, sendVars, collVars, execVars, keyVars, term, nKeys,
                   nResizes, crashed>>

callFrame == <<winVars, focusVars, sizeVars, rawVars, screenVars, logVars, collVars,
               execVars, keyVars, envVars, crashed>>

\* Deinit: queue the closure, then wait on the channel wait
CallDeinit(c) ==
    /\ ~crashed
    /\ Idle(c)
    /\ Queue(Closure(nextId, "deinit", c, NoEvent, Nil, ""))
    /\ Goto(c, "recvDeinit")
    /\ UNCHANGED callFrame

\* NewWindow: queue the closure, then wait on the channel wc
CallNewWindow(c, m) ==
    /\ ~crashed
    /\ Idle(c)
    /\ Queue(Closure(nextId, "newWindow", c, NoEvent, Nil, m))
    /\ Goto(c, "recvWindow")
    /\ UNCHANGED callFrame

\* Focus(w), FocusPrevious and Flush queue their closure and return
CallFocus(w) ==
    /\ ~crashed
    /\ \E c \in Apps : Idle(c)
    /\ Queue(Closure(nextId, "focus", "", NoEvent, w, ""))
    /\ UNCHANGED <<callFrame, callers>>

CallFocusPrevious ==
    /\ ~crashed
    /\ \E c \in Apps : Idle(c)
    /\ Queue(Closure(nextId, "focusPrevious", "", NoEvent, Nil, ""))
    /\ UNCHANGED <<callFrame, callers>>

CallFlush ==
    /\ ~crashed
    /\ \E c \in Apps : Idle(c)
    /\ Queue(Closure(nextId, "flush", "", NoEvent, Nil, ""))
    /\ UNCHANGED <<callFrame, callers>>

\* Panic and Exit close the backend and end the process
CallPanic(c) ==
    /\ ~crashed
    /\ Idle(c)
    /\ tbOpen' = FALSE /\ crashed' = TRUE
    /\ backendBy' = backendBy \cup {<<"caller", "Close">>}
    /\ UNCHANGED <<winVars, focusVars, sizeVars, termRaw, keyHandler, rawMtx, inited,
                   listener, screenVars, stateBy, sendVars, collVars, execVars, keyVars,
                   envVars, callers>>

CallExit(c) ==
    /\ ~crashed
    /\ Idle(c)
    /\ tbOpen' = FALSE /\ crashed' = TRUE
    /\ backendBy' = backendBy \cup {<<"caller", "Close">>}
    /\ UNCHANGED <<winVars, focusVars, sizeVars, termRaw, keyHandler, rawMtx, inited,
                   listener, screenVars, stateBy, sendVars, collVars, execVars, keyVars,
                   envVars, callers>>

\* the application receives from KeyChannel()
AppReadKey ==
    /\ ~crashed
    /\ keyC # <<>>
    /\ keyC' = Tail(keyC)
    /\ UNCHANGED <<winVars, focusVars, sizeVars, rawVars, screenVars, logVars, sendVars,
                   collVars, execVars, lastKey, envVars, callers, crashed>>

\* ------------------------------------------- initKeyHandler, the listener
listenFrame == <<winVars, focusVars, sizeVars, rawVars, screenVars, logVars, collVars,
                 execVars, keyVars, callers, crashed, nFails>>

\* PollEvent returns a key event
ListenKey(ev) ==
    /\ ~crashed
    /\ listener = "on" /\ tbOpen /\ nKeys < MaxKeys
    /\ nKeys' = nKeys + 1
    /\ Queue(Closure(nextId, "key", "", ev, Nil, ""))
    /\ UNCHANGED <<listenFrame, term, nResizes>>

\* the terminal is resized and PollEvent returns the resize event
ListenResize(size) ==
    /\ ~crashed
    /\ listener = "on" /\ tbOpen /\ nResizes < MaxResizes /\ size # term
    /\ nResizes' = nResizes + 1
    /\ term' = size
    /\ Queue(Closure(nextId, "resize", "", NoEvent, Nil, ""))
    /\ UNCHANGED <<listenFrame, nKeys>>

\* ---------------------------------------- init's goroutine that collects
collFrame == <<winVars, focusVars, sizeVars, rawVars, screenVars, logVars, execVars,
               keyVars, envVars, callers, crashed, accepted, nextId>>

\* f := <-work
CollRecv ==
    /\ ~crashed
    /\ coll.pc = "recv" /\ work # <<>>
    /\ coll' = [pc |-> "append", f |-> Head(work)]
    /\ work' = Tail(work)
    /\ UNCHANGED <<collFrame, execute, fa>>

\* fa = append(fa, f) under mtx, and the select that sends on execute
\* unless it is full
CollAppend ==
    /\ ~crashed
    /\ coll.pc = "append"
    /\ fa' = Append(fa, coll.f)
    /\ execute' = 1
    /\ coll' = [pc |-> "recv", f |-> NoClosure]
    /\ UNCHANGED <<collFrame, work>>

\* ------------------------------------------ init's goroutine that executes
workFrame == <<sendVars, collVars, envVars>>

\* <-execute
ExecWake ==
    /\ ~crashed
    /\ exec.pc = "wait" /\ execute = 1
    /\ execute' = 0
    /\ exec' = [pc |-> "pop", f |-> NoClosure]
    /\ UNCHANGED <<winVars, focusVars, sizeVars, rawVars, screenVars, logVars, sendVars,
                   fa, coll, executed, finished, keyVars, envVars, callers, crashed>>

\* a worker that takes the newest closure of its batch first
ExecPopNewest ==
    /\ ~crashed
    /\ exec.pc = "pop"
    /\ IF fa = <<>>
       THEN exec' = [pc |-> "wait", f |-> NoClosure] /\ UNCHANGED <<fa, executed>>
       ELSE /\ exec' = [pc |-> "run", f |-> fa[Len(fa)]]
            /\ fa' = SubSeq(fa, 1, Len(fa) - 1)
            /\ executed' = Append(executed, fa[Len(fa)].id)
    /\ UNCHANGED <<winVars, focusVars, sizeVars, rawVars, screenVars, logVars, sendVars,
                   execute, coll, finished, keyVars, envVars, callers, crashed>>

\* the head of the loop: leave it when fa is empty, else take fa[0]
ExecPop ==
    /\ ~crashed
    /\ exec.pc = "pop"
    /\ IF fa = <<>>
       THEN exec' = [pc |-> "wait", f |-> NoClosure] /\ UNCHANGED <<fa, executed>>
       ELSE /\ exec' = [pc |-> "run", f |-> Head(fa)]
            /\ fa' = Tail(fa)
            /\ executed' = Append(executed, Head(fa).id)
    /\ UNCHANGED <<winVars, focusVars, sizeVars, rawVars, screenVars, logVars, sendVars,
                   execute, coll, finished, keyVars, envVars, callers, crashed>>

Running(kind) == exec.pc = "run" /\ exec.f.kind = kind
\* f() has returned
ExecDone == exec' = [pc |-> "pop", f |-> NoClosure] /\ finished' = finished + 1
\* f() panics: the process ends
ExecPanic == crashed' = TRUE /\ UNCHANGED <<exec, finished>>

\* flush when w is the focused window
Flushed(w) == [w EXCEPT !.backingStore = FlushCells(w)]
FlushLog == {<<"worker", "SetCell">>, <<"worker", "Flush">>}
ResizeLog == {<<"worker", "Clear">>, <<"worker", "Size">>, <<"worker", "SetCursor">>}

\* resizeAndRender(w) for the window w, now the focused one, has left frame
\* F; flush; log is the toolkit state written
Shown(w, F, log) ==
    IF F.panic
    THEN ExecPanic /\ UNCHANGED <<wins, sizeVars, screenVars, logVars>>
    ELSE /\ maxX' = term[1] /\ maxY' = term[2]
         /\ wins' = [wins EXCEPT ![w + 1] = Flushed(F.w)]
         /\ cur' = F.cur /\ sent' = DirtyCells(F.w)
         /\ backendBy' = backendBy \cup ResizeLog \cup FlushLog
         /\ stateBy' = stateBy \cup log
         /\ ExecDone /\ UNCHANGED crashed

\* a focusWindow that takes every window made, registered or not
FcFocusWindowAny(w) ==
    IF w = Nil \/ focus = w
    THEN UNCHANGED <<focus, prevFocus, wins, cur, sent, maxX, maxY, crashed>>
    ELSE /\ prevFocus' = focus /\ focus' = w
         /\ maxX' = term[1] /\ maxY' = term[2]
         /\ wins' = wins /\ cur' = cur /\ sent' = sent /\ crashed' = crashed

\* focusWindow(w), with resizeAndRender and its flush
focusWindow(w) ==
    IF w = Nil \/ w \notin windows \/ focus = w
    THEN ExecDone /\ UNCHANGED <<focusVars, wins, sizeVars, screenVars, logVars, crashed>>
    ELSE /\ prevFocus' = focus /\ focus' = w
         /\ Shown(w, resizeAndRender(Frame(wins[w + 1], cur), term),
                  {<<"worker", "focus">>, <<"worker", "maxX">>})

\* the closure of Focus(w)
RunFocus ==
    /\ ~crashed
    /\ Running("focus")
    /\ focusWindow(exec.f.win)
    /\ UNCHANGED <<workFrame, inits, lastWindowID, windows, windower2window, rawVars,
                   executed, keyVars, callers>>

\* the closure of FocusPrevious
RunFocusPrevious ==
    /\ ~crashed
    /\ Running("focusPrevious")
    /\ focusWindow(prevFocus)
    /\ UNCHANGED <<workFrame, inits, lastWindowID, windows, windower2window, rawVars,
                   executed, keyVars, callers>>

\* the closure for a resize event: resizeAndRender(focus)
RunResize ==
    /\ ~crashed
    /\ Running("resize")
    /\ IF focus = Nil
       THEN ExecDone /\ UNCHANGED <<wins, sizeVars, screenVars, logVars, crashed>>
       ELSE Shown(focus, resizeAndRender(Frame(wins[focus + 1], cur), term),
                  {<<"worker", "maxX">>})
    /\ UNCHANGED <<workFrame, focusVars, inits, lastWindowID, windows, windower2window,
                   rawVars, executed, keyVars, callers>>

\* the closure of Flush
RunFlush ==
    /\ ~crashed
    /\ Running("flush")
    /\ IF focus = Nil
       THEN UNCHANGED <<wins, sent, backendBy>>
       ELSE /\ wins' = [wins EXCEPT ![focus + 1] = Flushed(wins[focus + 1])]
            /\ sent' = DirtyCells(wins[focus + 1])
            /\ backendBy' = backendBy \cup FlushLog
    /\ ExecDone
    /\ UNCHANGED <<workFrame, focusVars, inits, lastWindowID, windows, windower2window,
                   sizeVars, rawVars, cur, stateBy, executed, keyVars, callers, crashed>>

\* what the key closure has done with event ev of closure id when the
\* focused window's keyHandler has returned r; index was the window's focus
\* index
KeyRouted(id, ev, index, r) ==
    IF r.F.panic
    THEN ExecPanic /\ UNCHANGED <<wins, screenVars, backendBy, lastKey>>
    ELSE /\ lastKey' = [id |-> id, ev |-> ev, focus |-> focus, index |-> index,
                        called |-> IF r.widget = -1 THEN {} ELSE {<<focus, r.widget>>},
                        used |-> r.used, puts |-> 0,
                        key |-> MakeKey(ev, r.F.w.mgr,
                                        IF r.widget = -1 THEN <<>> ELSE <<focus, r.widget>>)]
         /\ cur' = r.F.cur
         /\ IF r.used
            THEN /\ wins' = [wins EXCEPT ![focus + 1] = Flushed(r.F.w)]
                 /\ sent' = DirtyCells(r.F.w)
                 /\ backendBy' = backendBy \cup FlushLog \cup {<<"worker", "SetCursor">>}
                 /\ ExecDone
            ELSE /\ wins' = [wins EXCEPT ![focus + 1] = r.F.w]
                 /\ exec' = [exec EXCEPT !.pc = "sendKey"]
                 /\ UNCHANGED <<sent, backendBy, finished>>
         /\ UNCHANGED crashed

\* the closure for a key event, up to its send on keyC
RunKey ==
    /\ ~crashed
    /\ Running("key")
    /\ IF focus = Nil
       THEN /\ lastKey' = [id |-> exec.f.id, ev |-> exec.f.ev, focus |-> Nil, index |-> Nil,
                           called |-> {}, used |-> FALSE, puts |-> 0,
                           key |-> MakeKey(exec.f.ev, "", <<>>)]
            /\ exec' = [exec EXCEPT !.pc = "sendKey"]
            /\ UNCHANGED <<wins, screenVars, backendBy, finished, crashed>>
       ELSE KeyRouted(exec.f.id, exec.f.ev, wins[focus + 1].focus,
                      WindowKeyHandler(Frame(wins[focus + 1], cur), exec.f.ev))
    /\ UNCHANGED <<workFrame, focusVars, inits, lastWindowID, windows, windower2window,
                   sizeVars, rawVars, stateBy, executed, keyC, callers>>

\* keyC <- Key{...}: the send blocks while keyC is full
ExecSendKey ==
    /\ ~crashed
    /\ exec.pc = "sendKey" /\ Len(keyC) < KeyCap
    /\ keyC' = Append(keyC, lastKey.key)
    /\ lastKey' = [lastKey EXCEPT !.puts = @ + 1]
    /\ ExecDone
    /\ UNCHANGED <<workFrame, winVars, focusVars, sizeVars, rawVars, screenVars, logVars,
                   executed, callers, crashed>>

\* the closure of NewWindow when manager.Init(w) has left frame F
WindowMade(id, mgr, F) ==
    IF F.panic
    THEN ExecPanic /\ UNCHANGED <<winVars, cur>>
    ELSE /\ wins' = Append(wins, F.w)
         /\ inits' = Append(inits, [n |-> 1, by |-> "worker"])
         /\ lastWindowID' = id + 1
         /\ windows' = windows \cup {id}
         /\ windower2window' = [windower2window EXCEPT ![mgr] = id]
         /\ cur' = F.cur
         /\ exec' = [pc |-> "windowReply", f |-> [exec.f EXCEPT !.win = id]]
         /\ UNCHANGED <<finished, crashed>>

\* the closure of NewWindow, up to its send on wc
RunNewWindow ==
    /\ ~crashed
    /\ Running("newWindow")
    /\ WindowMade(lastWindowID, exec.f.mgr,
                  MgrInit(Frame(MakeWindow(lastWindowID, exec.f.mgr, maxX, maxY), cur),
                          exec.f.mgr))
    /\ stateBy' = stateBy \cup {<<"worker", "windows">>}
    /\ UNCHANGED <<workFrame, focusVars, sizeVars, rawVars, sent, backendBy, executed,
                   keyVars, callers>>

\* wc <- w meets NewWindow's <-wc
ExecWindowReply ==
    /\ ~crashed
    /\ exec.pc = "windowReply" /\ callers[exec.f.by].pc = "recvWindow"
    /\ LET w == wins[exec.f.win + 1]
       IN  Return(exec.f.by, "window",
                  [NoObs EXCEPT !.raw = termRaw, !.win = w.id, !.registered = w.id \in windows,
                                !.wfocus = w.focus, !.cells = Len(w.backingStore),
                                !.size = <<maxX, maxY>>, !.term = term,
                                !.ninit = inits[w.id + 1]])
    /\ ExecDone
    /\ UNCHANGED <<workFrame, winVars, focusVars, sizeVars, rawVars, screenVars, logVars,
                   executed, keyVars, crashed>>

\* a Deinit closure that leaves the focus as it is
RunDeinitKeepFocus ==
    /\ ~crashed
    /\ Running("deinit")
    /\ tbOpen' = FALSE
    /\ windows' = {}
    /\ backendBy' = backendBy \cup {<<"worker", "Close">>}
    /\ stateBy' = stateBy \cup {<<"worker", "windows">>}
    /\ exec' = [exec EXCEPT !.pc = "deinitLock"]
    /\ UNCHANGED <<workFrame, wins, inits, lastWindowID, windower2window, sizeVars, termRaw,
                   keyHandler, rawMtx, inited, listener, screenVars, executed, finished,
                   keyVars, callers, focus, prevFocus, crashed>>

\* the closure of Deinit, up to rawMtx.Lock()
RunDeinit ==
    /\ ~crashed
    /\ Running("deinit")
    /\ tbOpen' = FALSE
    /\ focus' = Nil /\ prevFocus' = Nil
    /\ windows' = {}
    /\ backendBy' = backendBy \cup {<<"worker", "Close">>}
    /\ stateBy' = stateBy \cup {<<"worker", "focus">>, <<"worker", "windows">>}
    /\ exec' = [exec EXCEPT !.pc = "deinitLock"]
    /\ UNCHANGED <<workFrame, wins, inits, lastWindowID, windower2window, sizeVars, termRaw,
                   keyHandler, rawMtx, inited, listener, screenVars, executed, finished,
                   keyVars, callers, crashed>>

\* rawMtx.Lock(); termRaw = false; rawMtx.Unlock()
ExecDeinitLock ==
    /\ ~crashed
    /\ exec.pc = "deinitLock" /\ rawMtx = ""
    /\ termRaw' = FALSE
    /\ inited' = 0
    /\ stateBy' = stateBy \cup {<<"worker", "termRaw">>}
    /\ exec' = [exec EXCEPT !.pc = "deinitReply"]
    /\ UNCHANGED <<workFrame, winVars, focusVars, sizeVars, keyHandler, rawMtx, listener,
                   tbOpen, screenVars, backendBy, executed, finished, keyVars, callers,
                   crashed>>

\* wait <- true meets Deinit's <-wait
ExecDeinitReply ==
    /\ ~crashed
    /\ exec.pc = "deinitReply" /\ callers[exec.f.by].pc = "recvDeinit"
    /\ Return(exec.f.by, "deinit",
              [NoObs EXCEPT !.raw = termRaw, !.inited = inited,
                            !.clean = (windows = {} /\ focus = Nil /\ prevFocus = Nil)])
    /\ ExecDone
    /\ UNCHANGED <<workFrame, winVars, focusVars, sizeVars, rawVars, screenVars, logVars,
                   executed, keyVars, crashed>>

Next ==
    \/ \E c \in Apps : InitLock(c)
    \/ \E c \in Apps : InitRun(c)
    \/ \E c \in Apps : CallDeinit(c)
    \/ \E c \in Apps, m \in Mgrs : CallNewWindow(c, m)
    \/ \E w \in 0..(lastWindowID - 1) : CallFocus(w)
    \/ CallFocusPrevious
    \/ CallFlush
    \/ \E c \in Apps : CallPanic(c)
    \/ \E c \in Apps : CallExit(c)
    \/ AppReadKey
    \/ \E ev \in RunEvents : ListenKey(ev)
    \/ \E size \in TermSizes : ListenResize(size)
    \/ CollRecv \/ CollAppend
    \/ ExecWake \/ ExecPop
    \/ RunFocus \/ RunFocusPrevious \/ RunResize \/ RunFlush
    \/ RunKey \/ ExecSendKey
    \/ RunNewWindow \/ ExecWindowReply
    \/ RunDeinit \/ ExecDeinitLock \/ ExecDeinitReply

Spec == Init /\ [][Next]_vars

(***************************************************************************)
(* SpecRaw: the switch between raw and cooked mode.  Two goroutines call   *)
(* Init and Deinit concurrently while one of them creates and focuses      *)
(* windows; there are no key or resize events.                             *)
(***************************************************************************)
NextRaw ==
    \/ \E c \in Callers : InitLock(c)
    \/ \E c \in Callers : InitRun(c)
    \/ \E c \in Callers : CallDeinit(c)
    \/ \E c \in Apps : CallNewWindow(c, "mw")
    \/ \E w \in 0..(lastWindowID - 1) : CallFocus(w)
    \/ CollRecv \/ CollAppend
    \/ ExecWake \/ ExecPop
    \/ RunFocus
    \/ RunNewWindow \/ ExecWindowReply
    \/ RunDeinit \/ ExecDeinitLock \/ ExecDeinitReply

SpecRaw == Init /\ [][NextRaw]_vars

(***************************************************************************)
(* SpecEdit and SpecWin: one window and the closures that reach it, each   *)
(* run to its end in queue context.  The initial states are those after    *)
(* Init and after NewWindow with a Windower whose Init adds the widgets.   *)
(* In SpecEdit the window has one Edit, added with AddEdit(x, 0, width,    *)
(* target), and gets key events; in SpecWin it has up to MaxWidgets Labels *)
(* and Edits, and the focus moves among them.                              *)
(***************************************************************************)
\* the terminal sizes of SpecEdit: every width, and one change of height
EditSizes == { <<w, 1>> : w \in MinWidth..MaxWidth } \cup {<<MinWidth, MaxHeight>>}
Texts == { Slice(<<"1", "2", "3", "4">>, 0, n) : n \in {0, MaxText} }
EditWidths == {-1, 3}

Keys == {"Home", "End", "CtrlU", "ArrowRight", "ArrowLeft", "Delete", "Backspace",
         "Enter", "F1"}
KeyEvents == { Event(0, k, NUL) : k \in Keys } \cup { Event(m, "", "a") : m \in {0, 1} }

MaxWidgets == 3
\* FocusPrevious is not called again once the focus index is -MaxUnder
MaxUnder == 3

WidgetLists == UNION { [1..n -> {"label", "edit"}] : n \in 0..MaxWidgets }

RECURSIVE AddWidgets(_, _, _)
AddWidgets(F, kinds, i) ==
    IF i > Len(kinds) THEN F
    ELSE AddWidgets(IF kinds[i] = "edit" THEN AddEdit(F, 0, 0, 3, <<>>)
                    ELSE AddLabel(F, 3, 0, <<"L">>), kinds, i + 1)

\* the state after Init on a terminal of the given size and NewWindow, when
\* the Windower's Init has left frame F
WinInit(size, F) ==
    /\ QueueInit /\ ThreadInit /\ HistoryInit
    /\ ~F.panic
    /\ wins = <<F.w>>
    /\ cur = F.cur
    /\ term = size /\ maxX = size[1] /\ maxY = size[2]
    /\ termRaw = TRUE /\ keyHandler = TRUE /\ rawMtx = "" /\ tbOpen = TRUE
    /\ lastWindowID = 1 /\ windows = {0} /\ focus = Nil /\ prevFocus = Nil
    /\ keyC = <<>> /\ windower2window = [m \in Mgrs |-> IF m = "mw" THEN 0 ELSE Nil]
    /\ sent = {} /\ crashed = FALSE
    /\ inits = <<[n |-> 1, by |-> "worker"]>>

InitEdit ==
    \E size \in EditSizes, x \in 0..MaxAnchor, width \in EditWidths, target \in Texts :
        WinInit(size, AddEdit(Frame(MakeWindow(0, "mw", size[1], size[2]), <<-1, -1>>),
                              x, 0, width, target))

InitWin ==
    \E size \in Sizes, kinds \in WidgetLists :
        WinInit(size, AddWidgets(Frame(MakeWindow(0, "mw", size[1], size[2]), <<-1, -1>>),
                                 kinds, 1))

winFrame == <<queueVars, threadVars, historyVars, boundVars, inits, termRaw, keyHandler,
              rawMtx, tbOpen, lastWindowID, windows, prevFocus, keyC, windower2window>>

\* a closure on the window has left frame F; flush, when flushed
WinStep(F, flushed) ==
    IF F.panic
    THEN crashed' = TRUE /\ UNCHANGED <<wins, cur, sent>>
    ELSE /\ cur' = F.cur
         /\ IF flushed
            THEN sent' = DirtyCells(F.w) /\ wins' = <<Flushed(F.w)>>
            ELSE wins' = <<F.w>> /\ UNCHANGED sent
         /\ UNCHANGED crashed

\* the closure of Focus(w)
WnFocus ==
    /\ ~crashed /\ focus = Nil
    /\ focus' = 0
    /\ maxX' = term[1] /\ maxY' = term[2]
    /\ WinStep(resizeAndRender(Frame(wins[1], cur), term), TRUE)
    /\ UNCHANGED <<winFrame, term>>

\* the terminal is resized and the closure for the resize event runs
WnResize(size) ==
    /\ ~crashed /\ focus = 0 /\ size # term
    /\ term' = size
    /\ maxX' = size[1] /\ maxY' = size[2]
    /\ WinStep(resizeAndRender(Frame(wins[1], cur), size), TRUE)
    /\ UNCHANGED <<winFrame, focus>>

\* the closure of w.FocusNext(): focusNext and flush
WnFocusNext ==
    /\ ~crashed
    /\ WinStep(focusNext(Frame(wins[1], cur)), focus = 0)
    /\ UNCHANGED <<winFrame, focus, term, maxX, maxY>>

\* the closure of w.FocusPrevious(): focusPrevious and flush
WnFocusPrevious ==
    /\ ~crashed /\ wins[1].focus > -MaxUnder
    /\ WinStep(focusPrevious(Frame(wins[1], cur)), focus = 0)
    /\ UNCHANGED <<winFrame, focus, term, maxX, maxY>>

\* keyHandler has returned r in the closure for a key event: flush if the
\* event was used; the application takes a forwarded key off the key
\* channel at once
WinKeyed(r) == WinStep(r.F, r.used)

\* the closure for a key event
WnKey(ev) ==
    /\ ~crashed /\ focus = 0
    /\ ev.Ch = NUL \/ ev.Mod # 0 \/ Len(wins[1].widgets[1].display) < MaxLen
    /\ WinKeyed(WindowKeyHandler(Frame(wins[1], cur), ev))
    /\ UNCHANGED <<winFrame, focus, term, maxX, maxY>>

NextEdit ==
    \/ WnFocus
    \/ \E size \in EditSizes : WnResize(size)
    \/ \E ev \in KeyEvents : WnKey(ev)

SpecEdit == InitEdit /\ [][NextEdit]_vars

NextWin ==
    \/ WnFocus
    \/ \E size \in Sizes : WnResize(size)
    \/ WnFocusNext
    \/ WnFocusPrevious

SpecWin == InitWin /\ [][NextWin]_vars

\* the Edit of SpecEdit's window
TheEdit == wins[1].widgets[1]

(***************************************************************************)
(* SpecScene: the end-to-end scenario of the Edit.  A window of ScnWidth   *)
(* columns and ScnHeight lines gets one Edit, AddEdit(x, y, -2, "12345"),  *)
(* and then Home, End and the character "A", through the closure for key  *)
(* events once the window is focused, and before that through a queued     *)
(* closure that calls the Edit's KeyHandler.                               *)
(***************************************************************************)
ScnWidth == 20
ScnHeight == 5
\* the Edit's anchor column is 0..ScnAnchor; characters are typed into a
\* buffer of fewer than ScnLen
ScnAnchor == 2
ScnLen == 6
ScnText == <<"1", "2", "3", "4", "5">>
ScnEvents == {Event(0, "Home", NUL), Event(0, "End", NUL), Event(0, "", "A")}

InitScene ==
    \E x \in 0..ScnAnchor, y \in 0..(ScnHeight - 1) :
        WinInit(<<ScnWidth, ScnHeight>>,
                AddEdit(Frame(MakeWindow(0, "mw", ScnWidth, ScnHeight), <<-1, -1>>),
                        x, y, -2, ScnText))

\* the closure for a key event, on the focused window
ScnKey(ev) ==
    /\ ~crashed /\ focus = 0
    /\ ev.Ch = NUL \/ Len(TheEdit.display) < ScnLen
    /\ WinKeyed(WindowKeyHandler(Frame(wins[1], cur), ev))
    /\ UNCHANGED <<winFrame, focus, term, maxX, maxY>>

\* a queued closure that calls e.KeyHandler(ev), before the window is focused
ScnCall(ev) ==
    /\ ~crashed /\ focus = Nil
    /\ ev.Ch = NUL \/ Len(TheEdit.display) < ScnLen
    /\ WinStep(EditKeyHandler(Frame(wins[1], cur), 0, ev).F, FALSE)
    /\ UNCHANGED <<winFrame, focus, term, maxX, maxY>>

NextScene ==
    \/ WnFocus
    \/ \E ev \in ScnEvents : ScnKey(ev)
    \/ \E ev \in ScnEvents : ScnCall(ev)

SpecScene == InitScene /\ [][NextScene]_vars

(***************************************************************************)
(* SpecResize: an Edit with the text "12345", AddEdit(x, 0, width, &s), in *)
(* a window whose width the terminal's resize events change while the      *)
(* caret is moved through the buffer.                                      *)
(***************************************************************************)
\* the terminal is MinWidth..RzMaxWidth columns wide; the Edit's anchor
\* column is 0..RzAnchor
RzMaxWidth == 8
RzAnchor == 2
RzSizes == { <<w, 1>> : w \in MinWidth..RzMaxWidth }
RzEvents == { Event(0, k, NUL) : k \in {"Home", "End", "ArrowLeft", "ArrowRight"} }

InitResize ==
    \E size \in RzSizes, x \in 0..RzAnchor, width \in EditWidths :
        WinInit(size, AddEdit(Frame(MakeWindow(0, "mw", size[1], size[2]), <<-1, -1>>),
                              x, 0, width, ScnText))

NextResize ==
    \/ WnFocus
    \/ \E size \in RzSizes : WnResize(size)
    \/ \E ev \in RzEvents : WnKey(ev)

SpecResize == InitResize /\ [][NextResize]_vars

(***************************************************************************)
(* SpecList: a window with one List, AddList(0, 0, 0, height), that the    *)
(* application appends lines to and moves with Display from queued         *)
(* closures, and that the terminal's resize events resize.                 *)
(***************************************************************************)
\* the terminal is LsWidth columns and LsMinRows..LsMaxRows lines
LsWidth == 4
LsMinRows == 2
LsMaxRows == 4
\* the List holds up to MaxLines lines
MaxLines == 4
\* the height given to AddList: 0, the window's height less one, or LsHeight
LsHeight == 2
ListSizes == { <<LsWidth, h>> : h \in LsMinRows..LsMaxRows }
ListHeights == {0, LsHeight}
\* an empty line, two lines shorter than the width and one that wraps
ListLines == {<<>>, <<"a">>, <<"g", "h">>, <<"b", "c", "d", "e", "f">>}
Locations == {Top, Bottom, Up, Down, Current}

InitList ==
    \E size \in ListSizes, height \in ListHeights :
        WinInit(size, AddList(Frame(MakeWindow(0, "mw", size[1], size[2]), <<-1, -1>>),
                              0, 0, 0, height))

\* the List of SpecList's window
TheList == wins[1].widgets[1]

\* a queued closure that calls l.Append(s)
LsAppend(s) ==
    /\ ~crashed /\ Len(TheList.content) < MaxLines
    /\ WinStep(PutWd(Frame(wins[1], cur), 0, ListAppended(TheList, s)), FALSE)
    /\ UNCHANGED <<winFrame, focus, term, maxX, maxY>>

\* a queued closure that calls l.Display(where)
LsDisplay(where) ==
    /\ ~crashed
    /\ WinStep(ListDisplay(Frame(wins[1], cur), 0, where), FALSE)
    /\ UNCHANGED <<winFrame, focus, term, maxX, maxY>>

NextList ==
    \/ WnFocus
    \/ \E size \in ListSizes : WnResize(size)
    \/ \E s \in ListLines : LsAppend(s)
    \/ \E where \in Locations : LsDisplay(where)

SpecList == InitList /\ [][NextList]_vars

(***************************************************************************)
(* SpecWrap: a window with one List, AddList(0, 0, 0, 0), that gets one    *)
(* line of glyphs and colour sequences and is displayed.                   *)
(***************************************************************************)
\* the terminal is WrWidth columns and WrRows lines; a line is made of up
\* to WrPieces glyphs and colour sequences
WrWidth == 3
WrRows == 4
WrPieces == 6
WrGlyphs == <<"a", "b", "c", "d", "e", "f", "g", "h">>
\* Color(AttrNA, ColorRed, AttrNA) and Color(AttrNA, AttrNA, ColorBlue)
WrRed == <<ESC, "[", "3", "1", "m">>
WrBlue == <<ESC, "[", "4", "4", "m">>

RECURSIVE WrText(_, _, _)
\* the line of the pieces p[k..]: "g" is the next of the glyphs, the n-th
WrText(p, k, n) ==
    IF k > Len(p) THEN <<>>
    ELSE IF p[k] = "g" THEN <<WrGlyphs[n]>> \o WrText(p, k + 1, n + 1)
    ELSE (IF p[k] = "r" THEN WrRed ELSE WrBlue) \o WrText(p, k + 1, n)

WrapTexts == { WrText(p, 1, 1) : p \in UNION { [1..n -> {"g", "r", "b"}] : n \in 1..WrPieces } }

InitWrap ==
    WinInit(<<WrWidth, WrRows>>,
            AddList(Frame(MakeWindow(0, "mw", WrWidth, WrRows), <<-1, -1>>), 0, 0, 0, 0))

\* a queued closure that calls l.Append(s), once
WrAppend(s) ==
    /\ ~crashed /\ TheList.content = <<>>
    /\ WinStep(PutWd(Frame(wins[1], cur), 0, ListAppended(TheList, s)), FALSE)
    /\ UNCHANGED <<winFrame, focus, term, maxX, maxY>>

NextWrap ==
    \/ WnFocus
    \/ \E s \in WrapTexts : WrAppend(s)
    \/ \E where \in {Bottom, Current} : LsDisplay(where)

SpecWrap == InitWrap /\ [][NextWrap]_vars

(***************************************************************************)
(* SpecCodec: a goroutine of the application that uses the escape codec.   *)
(* It holds a text s, which starts as one of CodecTexts and to which it    *)
(* appends runes and sequences Color returned; plain is s without the      *)
(* sequences appended.  It calls Color, DecodeColor, Unescape and          *)
(* EscapedLen; ret is what the last statement returned.  The toolkit       *)
(* itself is as init() left it.                                            *)
(***************************************************************************)
\* the goroutine appends up to MaxPieces runes and sequences to its text and
\* then calls Unescape on it up to MaxStrips times
MaxPieces == 3
MaxStrips == 2
\* the arguments of Color: the attributes and 2, which is none; the colours,
\* AttrNA and ColorWhite + 1, which is none
CodecAttrs == {AttrNA, AttrReset, AttrBold, 2, AttrUnderline, AttrReverse}
CodecColours == AttrNA..(ColorWhite + 1)
\* the sequences appended to a text
CodecSeqs == {<<AttrReset, AttrNA, AttrNA>>, <<AttrBold, 1, AttrNA>>, <<AttrNA, AttrNA, 2>>}
\* the runes appended to a text
CodecRunes == {"a", "m", "["}
\* the texts to start from: with no sequence, with a well-formed one, and
\* with sequences that are cut short or have a parameter that is empty, no
\* number, or no attribute or colour
CodecTexts ==
    {<<>>, <<"a">>, <<"[", "1", "m">>, <<ESC>>, <<ESC, "[">>, <<ESC, "[", "1">>,
     <<ESC, "[", "1", ";", "3", "1">>, <<ESC, "]", "1", "m">>, <<ESC, "[", "m">>,
     <<ESC, "[", "1", ";", "m">>, <<ESC, "[", "x", "m">>, <<ESC, "[", "9", "m">>,
     <<ESC, "[", "3", "8", "m">>, <<ESC, "[", "-", "1", "m">>, <<ESC, "[", "1", "m">>,
     <<ESC, ESC, "[", "0", "m", "[", "0", "m">>}

NoRet == [fn |-> "", arg |-> <<>>, val |-> <<>>]

InitCodec ==
    /\ QueueInit /\ HistoryInit
    /\ listener = "off"
    /\ \E t \in CodecTexts :
           callers = [c \in Callers |->
                         [pc |-> "idle", ret |-> NoRet,
                          obs |-> [s |-> t, plain |-> t, np |-> 0, ns |-> 0]]]
    /\ term \in {<<MinWidth, 1>>}
    /\ maxX = 0 /\ maxY = 0 /\ termRaw = FALSE /\ keyHandler = FALSE /\ rawMtx = ""
    /\ lastWindowID = 0 /\ focus = Nil /\ prevFocus = Nil /\ windows = {}
    /\ keyC = <<>> /\ windower2window = [m \in Mgrs |-> Nil]
    /\ wins = <<>> /\ inits = <<>>
    /\ tbOpen = FALSE /\ cur = <<-1, -1>> /\ sent = {} /\ crashed = FALSE

codecFrame == <<globalVars, queueVars, listener, backendVars, historyVars, boundVars,
                wins, inits, cur, crashed>>

\* the goroutine c has run a statement that returned ret and left its text
\* and counters as obs
CdDone(c, ret, obs) ==
    /\ callers' = [callers EXCEPT ![c].ret = ret, ![c].obs = obs]
    /\ UNCHANGED codecFrame

\* es, err := Color(at, f, b), while the text is empty
CdColor(c, at, f, b) ==
    /\ callers[c].obs.s = <<>> /\ callers[c].obs.np = 0 /\ callers[c].obs.ns = 0
    /\ CdDone(c, [fn |-> "Color", arg |-> <<at, f, b>>, val |-> Color(at, f, b)],
              callers[c].obs)

\* a, skip, err := DecodeColor(es) for the es Color has just returned
CdDecodeSeq(c) ==
    /\ callers[c].ret.fn = "Color" /\ callers[c].ret.val.err = ""
    /\ CdDone(c, [fn |-> "DecodeSeq", arg |-> callers[c].ret.arg,
                  val |-> [es |-> callers[c].ret.val.es,
                           d |-> DecodeColor(callers[c].ret.val.es)]],
              callers[c].obs)

\* s += string(r)
CdWrite(c, r) ==
    /\ callers[c].obs.np < MaxPieces /\ callers[c].obs.ns = 0
    /\ CdDone(c, NoRet, [callers[c].obs EXCEPT !.s = Append(@, r), !.plain = Append(@, r),
                                               !.np = @ + 1])

\* es, _ := Color(t...); s += es
CdAppendSeq(c, t) ==
    /\ callers[c].obs.np < MaxPieces /\ callers[c].obs.ns = 0
    /\ CdDone(c, NoRet, [callers[c].obs EXCEPT !.s = @ \o Color(t[1], t[2], t[3]).es,
                                               !.np = @ + 1])

\* a, skip, err := DecodeColor(s)
CdDecode(c) ==
    CdDone(c, [fn |-> "DecodeColor", arg |-> callers[c].obs.s,
               val |-> DecodeColor(callers[c].obs.s)], callers[c].obs)

\* s = Unescape(s)
CdUnescape(c) ==
    /\ callers[c].obs.ns < MaxStrips
    /\ CdDone(c, [fn |-> "Unescape", arg |-> callers[c].obs.s,
                  val |-> Unescape(callers[c].obs.s)],
              [callers[c].obs EXCEPT !.s = Unescape(@), !.ns = @ + 1])

\* n := EscapedLen(s)
CdEscapedLen(c) ==
    CdDone(c, [fn |-> "EscapedLen", arg |-> callers[c].obs.s,
               val |-> EscapedLen(callers[c].obs.s)], callers[c].obs)

NextCodec ==
    \E c \in Apps :
        \/ \E at \in CodecAttrs, f \in CodecColours, b \in CodecColours : CdColor(c, at, f, b)
        \/ CdDecodeSeq(c)
        \/ \E r \in CodecRunes : CdWrite(c, r)
        \/ \E t \in CodecSeqs : CdAppendSeq(c, t)
        \/ CdDecode(c)
        \/ CdUnescape(c)
        \/ CdEscapedLen(c)

SpecCodec == InitCodec /\ [][NextCodec]_vars

(***************************************************************************)
(* SpecFlush: two windows, each with one Label.  Queued closures of the    *)
(* application set a Label's text and render it, focus a window and flush. *)
(***************************************************************************)
\* the terminal is FlWidth columns and FlHeight lines; the Label of window
\* w is at column FlAnchor * w
FlWidth == 4
FlHeight == 2
FlAnchor == 1
FlWins == {0, 1}
\* the texts of the Labels: shorter and longer than the window, and with
\* sequences of Color
FlTexts ==
    {<<"a">>, <<"b", "c", "d">>, <<"e", "f", "g", "h", "i">>,
     <<"j", ESC, "[", "3", "1", "m", "k">>, <<ESC, "[", "1", ";", "4", "2", "m", "l", "n">>}

\* Windower.Init of window w
FlWindow(w) ==
    AddLabel(Frame(MakeWindow(w, IF w = 0 THEN "mw" ELSE "sw", FlWidth, FlHeight), <<-1, -1>>),
             FlAnchor * w, w, <<>>).w

InitFlush ==
    /\ QueueInit /\ ThreadInit /\ HistoryInit
    /\ wins = <<FlWindow(0), FlWindow(1)>>
    /\ cur = <<-1, -1>>
    /\ term = <<FlWidth, FlHeight>> /\ maxX = FlWidth /\ maxY = FlHeight
    /\ termRaw = TRUE /\ keyHandler = TRUE /\ rawMtx = "" /\ tbOpen = TRUE
    /\ lastWindowID = 2 /\ windows = {0, 1} /\ focus = Nil /\ prevFocus = Nil
    /\ keyC = <<>> /\ windower2window = [m \in Mgrs |-> IF m = "mw" THEN 0 ELSE 1]
    /\ sent = {} /\ crashed = FALSE
    /\ inits = <<[n |-> 1, by |-> "worker"], [n |-> 1, by |-> "worker"]>>

\* a closure that calls l.SetText(text) and l.Render() for the Label of
\* window w; F is the frame Render leaves
FlPainted(w, F) ==
    /\ crashed' = F.panic
    /\ wins' = IF F.panic THEN wins ELSE [wins EXCEPT ![w + 1] = F.w]
    /\ cur' = IF F.panic THEN cur ELSE F.cur
    /\ UNCHANGED <<winFrame, focus, term, maxX, maxY, sent>>

FlRender(w, text) ==
    /\ ~crashed
    /\ FlPainted(w, LabelRender(PutWd(Frame(wins[w + 1], cur), 0,
                                      [wins[w + 1].widgets[1] EXCEPT !.text = text]), 0))

\* the closure of Focus(w), w not the focused window: focusWindow with
\* resizeAndRender and its flush; F is the frame render leaves
FlShown(w, F) ==
    /\ crashed' = F.panic
    /\ wins' = IF F.panic THEN wins ELSE [wins EXCEPT ![w + 1] = Flushed(F.w)]
    /\ cur' = IF F.panic THEN cur ELSE F.cur
    /\ sent' = IF F.panic THEN sent ELSE DirtyCells(F.w)

FlFocus(w) ==
    /\ ~crashed /\ w \in windows /\ focus # w
    /\ focus' = w
    /\ maxX' = term[1] /\ maxY' = term[2]
    /\ FlShown(w, resizeAndRender(Frame(wins[w + 1], cur), term))
    /\ UNCHANGED <<queueVars, threadVars, historyVars, boundVars, inits, termRaw, keyHandler,
                   rawMtx, tbOpen, lastWindowID, windows, keyC, windower2window, term>>
    /\ prevFocus' = focus

\* the closure of Flush
FlFlush ==
    /\ ~crashed
    /\ IF focus = Nil
       THEN UNCHANGED <<wins, sent>>
       ELSE /\ wins' = [wins EXCEPT ![focus + 1] = Flushed(wins[focus + 1])]
            /\ sent' = DirtyCells(wins[focus + 1])
    /\ UNCHANGED <<winFrame, focus, term, maxX, maxY, cur, crashed>>

NextFlush ==
    \/ \E w \in FlWins, text \in FlTexts : FlRender(w, text)
    \/ \E w \in FlWins : FlFocus(w)
    \/ FlFlush

SpecFlush == InitFlush /\ [][NextFlush]_vars

(***************************************************************************)
(* SpecFocus: the focused and the previously focused window.  The          *)
(* application calls NewWindow, Focus, FocusPrevious, Deinit and Init      *)
(* again, one call after the other; each step is the call's closure.       *)
(***************************************************************************)
\* the application makes up to MaxWins windows
MaxWins == 3

InitFocus ==
    /\ QueueInit /\ ThreadInit /\ HistoryInit
    /\ wins = <<>> /\ inits = <<>>
    /\ cur = <<-1, -1>>
    /\ term = <<MinWidth, MaxHeight>> /\ maxX = MinWidth /\ maxY = MaxHeight
    /\ termRaw = TRUE /\ keyHandler = TRUE /\ rawMtx = "" /\ tbOpen = TRUE
    /\ lastWindowID = 0 /\ windows = {} /\ focus = Nil /\ prevFocus = Nil
    /\ keyC = <<>> /\ windower2window = [m \in Mgrs |-> Nil]
    /\ sent = {} /\ crashed = FALSE

focusFrame == <<queueVars, threadVars, historyVars, boundVars, keyHandler, rawMtx, keyC, term>>

\* the closure of NewWindow(m); F is the frame the Windower's Init leaves
FcWindowMade(m, F) ==
    /\ crashed' = F.panic
    /\ wins' = Append(wins, F.w)
    /\ inits' = Append(inits, [n |-> 1, by |-> "worker"])
    /\ lastWindowID' = lastWindowID + 1
    /\ windows' = windows \cup {lastWindowID}
    /\ windower2window' = [windower2window EXCEPT ![m] = lastWindowID]
    /\ cur' = F.cur

FcNewWindow(m) ==
    /\ ~crashed /\ termRaw /\ lastWindowID < MaxWins
    /\ FcWindowMade(m, MgrInit(Frame(MakeWindow(lastWindowID, m, maxX, maxY), cur), m))
    /\ UNCHANGED <<focusFrame, focus, prevFocus, maxX, maxY, termRaw, tbOpen, sent>>

\* focusWindow(w): w is Nil, or the id of a window made before
FcFocusWindow(w) ==
    IF w = Nil \/ w \notin windows \/ focus = w
    THEN UNCHANGED <<focus, prevFocus, wins, cur, sent, maxX, maxY, crashed>>
    ELSE /\ prevFocus' = focus /\ focus' = w
         /\ maxX' = term[1] /\ maxY' = term[2]
         /\ FlShown(w, resizeAndRender(Frame(wins[w + 1], cur), term))

\* the closure of Focus(w)
FcFocus(w) ==
    /\ ~crashed /\ termRaw
    /\ FcFocusWindow(w)
    /\ UNCHANGED <<focusFrame, inits, lastWindowID, windows, windower2window, termRaw, tbOpen>>

\* the closure of FocusPrevious()
FcFocusPrevious ==
    /\ ~crashed /\ termRaw
    /\ FcFocusWindow(prevFocus)
    /\ UNCHANGED <<focusFrame, inits, lastWindowID, windows, windower2window, termRaw, tbOpen>>

\* the closure of Deinit()
FcDeinit ==
    /\ ~crashed /\ termRaw
    /\ tbOpen' = FALSE /\ termRaw' = FALSE
    /\ focus' = Nil /\ prevFocus' = Nil
    /\ windows' = {}
    /\ UNCHANGED <<focusFrame, wins, inits, lastWindowID, windower2window, maxX, maxY, cur,
                   sent, crashed>>

\* Init() after a Deinit
FcInit ==
    /\ ~crashed /\ ~termRaw
    /\ tbOpen' = TRUE /\ termRaw' = TRUE
    /\ cur' = <<-1, -1>> /\ sent' = {}
    /\ maxX' = term[1] /\ maxY' = term[2]
    /\ UNCHANGED <<focusFrame, wins, inits, lastWindowID, windows, windower2window, focus,
                   prevFocus, crashed>>

NextFocusStep ==
    \/ \E m \in Mgrs : FcNewWindow(m)
    \/ \E w \in {Nil} \cup (0..(lastWindowID - 1)) : FcFocus(w)
    \/ FcFocusPrevious
    \/ FcDeinit
    \/ FcInit

SpecFocus == InitFocus /\ [][NextFocusStep]_vars

(***************************************************************************)
(* SpecAnchor: a window with a Label, AddLabel(x, y, "Lb"), and an Edit,   *)
(* AddEdit(x, y, width, &s) with s = "12", at anchors counted from the top *)
(* and from the bottom, on a terminal that is resized.                     *)
(***************************************************************************)
\* anchor rows: the first two lines, and the last two counted from the bottom
AnchorRows == {0, 1, -1, -2}

InitAnchor ==
    \E size \in Sizes, lx \in 0..MaxAnchor, ly \in AnchorRows, ex \in 0..MaxAnchor,
       ey \in AnchorRows, width \in EditWidths :
        WinInit(size, AddEdit(AddLabel(Frame(MakeWindow(0, "mw", size[1], size[2]),
                                             <<-1, -1>>), lx, ly, <<"L", "b">>),
                              ex, ey, width, <<"1", "2">>))

NextAnchor ==
    \/ WnFocus
    \/ \E size \in Sizes : WnResize(size)

SpecAnchor == InitAnchor /\ [][NextAnchor]_vars

(***************************************************************************)
(* SpecQueue: the render queue alone.  The application passes closures to  *)
(* Queue; a closure returns at once, or calls Queue itself, on the worker, *)
(* and returns.  The collector's append to fa under mtx and its send on    *)
(* execute are two steps.  Every goroutine that can take a step takes one  *)
(* in the end; the application may stop calling at any time.               *)
(***************************************************************************)
\* the application passes up to QCalls closures to Queue
QCalls == 5

InitQueue == Init /\ term = <<MinWidth, 1>>

queueFrame == <<winVars, focusVars, sizeVars, rawVars, screenVars, logVars, keyVars,
                envVars, callers, crashed>>

\* work <- f, by the goroutine named in f
QSend(f) ==
    /\ Len(work) < WorkCap
    /\ work' = Append(work, f)
    /\ accepted' = Append(accepted, f.id)
    /\ nextId' = nextId + 1

\* the application calls Queue(f); kind tells what f does
QCall(kind) ==
    /\ nextId <= QCalls
    /\ QSend(Closure(nextId, kind, "a1", NoEvent, Nil, ""))
    /\ UNCHANGED <<queueFrame, execute, fa, coll, exec, executed, finished>>

\* fa = append(fa, f) under mtx
CollStore ==
    /\ coll.pc = "append"
    /\ fa' = Append(fa, coll.f)
    /\ coll' = [coll EXCEPT !.pc = "signal"]
    /\ UNCHANGED <<collFrame, work, execute>>

\* a collector whose send on execute has no default case: it blocks while
\* execute is full
CollSignalBlocking ==
    /\ coll.pc = "signal" /\ execute = 0
    /\ execute' = 1
    /\ coll' = [pc |-> "recv", f |-> NoClosure]
    /\ UNCHANGED <<collFrame, work, fa>>

\* select { case execute <- true: default: }
CollSignal ==
    /\ coll.pc = "signal"
    /\ execute' = 1
    /\ coll' = [pc |-> "recv", f |-> NoClosure]
    /\ UNCHANGED <<collFrame, work, fa>>

\* f() of a closure that returns at once
QRunPlain ==
    /\ Running("plain")
    /\ ExecDone
    /\ UNCHANGED <<queueFrame, sendVars, collVars, executed>>

\* f() of a closure that calls Queue and returns
QRunNested ==
    /\ Running("nested")
    /\ QSend(Closure(nextId, "plain", "worker", NoEvent, Nil, ""))
    /\ ExecDone
    /\ UNCHANGED <<queueFrame, collVars, executed>>

NextQueue ==
    \/ \E kind \in {"plain", "nested"} : QCall(kind)
    \/ CollRecv \/ CollStore \/ CollSignal
    \/ ExecWake \/ ExecPop
    \/ QRunPlain \/ QRunNested

QueueFair ==
    /\ WF_vars(CollRecv) /\ WF_vars(CollStore) /\ WF_vars(CollSignal)
    /\ WF_vars(ExecWake) /\ WF_vars(ExecPop)
    /\ WF_vars(QRunPlain) /\ WF_vars(QRunNested)

SpecQueue == InitQueue /\ [][NextQueue]_vars /\ QueueFair

(***************************************************************************)
(* The claims.                                                             *)
(***************************************************************************)
\* C1: the worker starts the closures in the order the work queue accepted
\* them, each once, and it runs one closure at a time: a closure is started
\* only after every closure started before it has returned.
C1_FifoOneAtATime ==
    /\ Len(executed) <= Len(accepted)
    /\ executed = SubSeq(accepted, 1, Len(executed))
    /\ \A i, j \in 1..Len(executed) : executed[i] = executed[j] => i = j
    /\ IF exec.pc \in {"wait", "pop"}
       THEN finished = Len(executed) /\ exec.f = NoClosure
       ELSE finished = Len(executed) - 1 /\ exec.f.id = executed[Len(executed)]

\* two closures have returned and the third is running while another waits
C1_Witness == Len(executed) = 3 /\ finished = 2 /\ exec.pc = "run"

\* C2: the closure of a key event never waits on the key channel: when it
\* is about to forward the key, the channel has room.
C2_KeyForwardNeverStalls == exec.pc = "sendKey" => Len(keyC) < KeyCap

\* C3: every call of the backend and every write of the toolkit's state is
\* made by the worker goroutine.
C3_OnlyTheWorker == \A e \in backendBy \cup stateBy : e[1] = "worker"

\* C4: every closure accepted before that of Deinit has returned when it
\* runs; the closure of Deinit has cleared the focus, the previous focus and
\* the registry and closed the backend before it clears the raw flag; when
\* Deinit returns the registry is empty and no window is focused, and the
\* raw flag is off unless a call of Init succeeded after the closure cleared
\* it.
C4_DeinitAtReturn ==
    /\ exec.pc \in {"deinitLock", "deinitReply"} =>
          /\ windows = {} /\ focus = Nil /\ prevFocus = Nil
          /\ <<"worker", "Close">> \in backendBy
    /\ exec.pc = "deinitReply" => <<"worker", "termRaw">> \in stateBy
    /\ exec.pc \in {"deinitLock", "deinitReply"} =>
          /\ exec.f.kind = "deinit"
          /\ exec.f.id = executed[Len(executed)]
          /\ executed = SubSeq(accepted, 1, Len(executed))
          /\ finished = Len(executed) - 1
    /\ \A c \in Callers : callers[c].ret = "deinit" =>
          /\ callers[c].obs.clean
          /\ callers[c].obs.raw => callers[c].obs.inited >= 1

\* Deinit has returned with the flag off after a window was focused
C4_Witness ==
    \E c \in Callers :
        /\ callers[c].ret = "deinit" /\ ~callers[c].obs.raw
        /\ Len(wins) >= 1 /\ wins[1].focus >= 0

\* C4 as stated: when Deinit returns the registry is empty, no window is
\* focused and the raw flag is off.
C4_RawOffAtReturn ==
    \A c \in Callers : callers[c].ret = "deinit" =>
        callers[c].obs.clean /\ ~callers[c].obs.raw

InitRets == {"ok", "already", "fail"}

\* C5: Init returns AlreadyInitialized exactly when it finds the raw flag
\* set; at most one goroutine is inside Init past that test, and between two
\* clearings of the flag at most one call of Init succeeds, the flag being
\* set exactly when one has.
C5_InitOnce ==
    /\ inited <= 1
    /\ termRaw <=> inited = 1
    /\ \A c, d \in Callers : callers[c].pc = "init" /\ callers[d].pc = "init" => c = d
    /\ \A c \in Callers :
          /\ callers[c].pc = "init" => rawMtx = c /\ ~termRaw
          /\ callers[c].ret \in InitRets => (callers[c].ret = "already" <=> callers[c].obs.raw)

\* of two calls of Init one succeeded and the other returned
\* AlreadyInitialized
C5_Witness ==
    \E c, d \in Callers : callers[c].ret = "ok" /\ callers[d].ret = "already" /\ termRaw

\* C5 as stated: a call of Init that finds the flag clear initializes the
\* backend and succeeds, every other call returns AlreadyInitialized.
C5_ExactlyOneSucceeds ==
    \A c \in Callers : callers[c].ret \in InitRets =>
        callers[c].ret = (IF callers[c].obs.raw THEN "already" ELSE "ok")

\* C6: window ids are unique and the Init callback of each window's Windower
\* has run exactly once, on the worker; when NewWindow returns the window is
\* registered, its focus index is -1 and its store has maxX * maxY cells, the
\* terminal size the toolkit sampled last.
C6_NewWindowAtReturn ==
    /\ \A i \in 1..Len(wins) : wins[i].id = i - 1 /\ inits[i] = [n |-> 1, by |-> "worker"]
    /\ \A c \in Callers : callers[c].ret = "window" =>
          /\ callers[c].obs.registered
          /\ callers[c].obs.wfocus = -1
          /\ callers[c].obs.ninit = [n |-> 1, by |-> "worker"]
          /\ callers[c].obs.cells = callers[c].obs.size[1] * callers[c].obs.size[2]

\* NewWindow has returned a second window, in raw mode
C6_Witness ==
    \E c \in Callers :
        callers[c].ret = "window" /\ callers[c].obs.win = 1 /\ callers[c].obs.raw
                                  /\ callers[c].obs.cells > 0

\* C6 as stated: the store of the window NewWindow returns, in raw mode, has
\* width * height cells for the terminal's current size.
C6_StoreForTerminalSize ==
    \A c \in Callers : callers[c].ret = "window" /\ callers[c].obs.raw =>
        callers[c].obs.cells = callers[c].obs.term[1] * callers[c].obs.term[2]

\* C7: when the closure of a key event has returned, no KeyHandler but that
\* of the focused widget of the focused window was called; if that handler
\* used the event nothing was sent on the key channel, otherwise exactly one
\* Key was sent, with the event's Mod, Key and Ch, the focused window's
\* Windower and its focused widget, both nil when there is none.
C7_KeyRouting ==
    LET k == lastKey
        widget == IF k.focus # Nil /\ k.index >= 0 THEN <<k.focus, k.index>> ELSE <<>>
    IN  k.id # 0 /\ exec.f.id # k.id =>
          /\ k.called \subseteq {widget}
          /\ k.used => k.called # {} /\ k.puts = 0
          /\ ~k.used =>
                /\ k.puts = 1
                /\ k.key = MakeKey(k.ev, IF k.focus = Nil THEN "" ELSE wins[k.focus + 1].mgr,
                                   widget)

\* a key the focused Edit does not use was forwarded with the widget
C7_Witness ==
    /\ lastKey.id # 0 /\ exec.f.id # lastKey.id
    /\ ~lastKey.used /\ lastKey.puts = 1 /\ lastKey.key.Widget = <<0, 1>>

\* C8: the focus index of a window is -1 or the index of one of its
\* widgets.
C8_FocusIndexValid ==
    \A i \in 1..Len(wins) :
        wins[i].focus = -1 \/ (0 <= wins[i].focus /\ wins[i].focus < Len(wins[i].widgets))

\* C9: the backing store of every window has x * y cells.
C9_StoreSize ==
    \A i \in 1..Len(wins) : Len(wins[i].backingStore) = wins[i].x * wins[i].y

\* a window made for one terminal size was resized to another
C9_Witness ==
    /\ nResizes = 1 /\ finished = 3 /\ focus # Nil
    /\ wins[focus + 1].x = term[1] /\ wins[focus + 1].y = term[2]

\* C10: the caret of an Edit is at an index of its buffer, 0..len, and the
\* first displayed index at is between 0 and the caret's index.
C10_CaretInBuffer ==
    LET e == TheEdit
    IN  /\ 0 <= InString(e) /\ InString(e) <= Len(e.display)
        /\ 0 <= e.at /\ e.at <= InString(e)

\* the key events that carry a printable character
Printable == { ev \in KeyEvents : ev.Ch # NUL /\ ev.Mod = 0 /\ ev.Key = "" }

\* the Edit e1 is the Edit e with the character ch inserted at the caret
Inserted(e, e1, ch) ==
    LET k == InString(e)
    IN  /\ Len(e1.display) = Len(e.display) + 1
        /\ e1.display[k + 1] = ch
        /\ \A j \in 1..k : e1.display[j] = e.display[j]
        /\ \A j \in (k + 1)..Len(e.display) : e1.display[j + 1] = e.display[j]
        /\ InString(e1) = k + 1

\* C11: the closure of a key event with a printable character, on a focused
\* Edit whose caret is at an index 0..len of its buffer, does not panic; it
\* makes the buffer one longer with the character at the caret's index, the
\* characters before it unchanged and those from it on moved one place to
\* the right, and the caret's index one more.
C11_InsertAtCaret ==
    [][\A ev \in Printable :
          (/\ 0 <= InString(TheEdit) /\ InString(TheEdit) <= Len(TheEdit.display)
           /\ WnKey(ev))
          => ~crashed' /\ Inserted(TheEdit, TheEdit', ev.Ch)]_vars

\* a character was typed between two characters of the text
C11_Witness ==
    /\ focus = 0 /\ ~crashed
    /\ TheEdit.display = <<"1", "a", "2">> /\ InString(TheEdit) = 2

Backspace == Event(0, "Backspace", NUL)

\* the Edit e1 is the Edit e without the character before its caret
Erased(e, e1) ==
    e1.display = Slice(e.display, 0, InString(e) - 1)
                     \o Slice(e.display, InString(e), Len(e.display))

RECURSIVE BackspaceRun(_, _), BackspaceRan(_, _, _)
\* n backspace keys in a row on the Edit of frame F: none panics, each
\* removes the character before the caret, and the buffer is empty at the end
BackspaceRun(F, n) ==
    IF n = 0 THEN Wd(F, 0).display = <<>>
    ELSE BackspaceRan(F, EditKeyHandler(F, 0, Backspace).F, n)

BackspaceRan(F, G, n) ==
    ~G.panic /\ Erased(Wd(F, 0), Wd(G, 0)) /\ BackspaceRun(G, n - 1)

\* C12: from a focused Edit with the caret at the end of a buffer of n
\* characters, n backspace keys empty the buffer, each removing the
\* character before the caret without a panic.
C12_BackspaceToEmpty ==
    focus = 0 /\ ~crashed /\ InString(TheEdit) = Len(TheEdit.display)
        => BackspaceRun(Frame(wins[1], cur), Len(TheEdit.display))

\* a key event reaches the Edit of SpecScene
ScnSent(ev) == ScnKey(ev) \/ ScnCall(ev)

\* C13: in the 20x5 window the Edit added with width -2 and the text "12345"
\* has its caret at index 5; the Home key moves the caret to index 0 with
\* at = 0; "A" typed at index 0 of "12345" makes the buffer "A12345".
C13_Scenario ==
    /\ TheEdit.display = ScnText /\ InString(TheEdit) = 5
    /\ [][/\ ScnSent(Event(0, "Home", NUL)) =>
               ~crashed' /\ InString(TheEdit') = 0 /\ TheEdit'.at = 0
          /\ (/\ TheEdit.display = ScnText /\ InString(TheEdit) = 0
              /\ ScnSent(Event(0, "", "A"))) =>
               ~crashed' /\ TheEdit'.display = <<"A">> \o ScnText]_vars

\* the scenario has run to its end
C13_Witness ==
    /\ ~crashed /\ TheEdit.display = <<"A">> \o ScnText /\ InString(TheEdit) = 1
    /\ TheEdit.x = 2 /\ TheEdit.y = 4


\* the characters on line y of the window w; a cell never written is blank
RowCells(w, y) ==
    [k \in 1..w.x |-> IF w.backingStore[(y * w.x) + k].Ch = NUL THEN " "
                      ELSE w.backingStore[(y * w.x) + k].Ch]

RECURSIVE Chunks(_, _)
\* the text s cut into rows of W cells, the last one filled with blanks
Chunks(s, W) ==
    IF Len(s) <= W THEN <<s \o Repeat(" ", W - Len(s))>>
    ELSE <<Slice(s, 0, W)>> \o Chunks(Slice(s, W, Len(s)), W)

RECURSIVE ListRows(_, _, _)
\* the wrapped rows of the lines c[k..]
ListRows(c, W, k) ==
    IF k > Len(c) THEN <<>> ELSE Chunks(Unescape(c[k]), W) \o ListRows(c, W, k + 1)

\* the window of frame G shows the rows on the lines of the List l
ListShows(G, l, rows) ==
    /\ ~G.panic
    /\ \A i \in 0..(Len(rows) - 1) : RowCells(G.w, l.trueY + i) = rows[i + 1]

\* Append(s) has made l1 of l: the line is added, and the offset follows the
\* bottom unless the List is paging
AppendedAt(l, l1, s) ==
    /\ l1.content = Append(l.content, s)
    /\ l1.paging = l.paging
    /\ l1.at = IF l.paging THEN l.at ELSE Max(Len(l1.content) - l1.trueH, 0)

\* C14: an Append to a List that is not paging leaves the offset at
\* max(0, lines - height), and when it has more lines than its height the
\* next rendering shows the bottom-most height wrapped rows; an Append while
\* paging adds the line and leaves the offset unchanged.
C14_AppendShowsBottom ==
    [][\A s \in ListLines :
          LsAppend(s) =>
              /\ ~crashed'
              /\ AppendedAt(TheList, TheList', s)
              /\ (/\ ~TheList'.paging /\ TheList'.trueH >= 1
                  /\ Len(TheList'.content) > TheList'.trueH)
                 => ListShows(ListRender(Frame(wins'[1], cur'), 0), TheList',
                              LastRows(ListRows(TheList'.content, TheList'.trueW, 1),
                                       TheList'.trueH))]_vars


\* page heights and line counts beyond those of SpecList's window
MaxPageHeight == 6
MaxPageLines == 13

\* the offset of the bottom view
BottomAt(l) == Max(Len(l.content) - l.trueH, 0)

\* Display(Up) and then Display(Down) on frame F leave the List at offset at
UpDownAt(F, at) ==
    /\ ~ListDisplay(ListDisplay(F, 0, Up), 0, Down).panic
    /\ Wd(ListDisplay(ListDisplay(F, 0, Up), 0, Down), 0).at = at

\* a List of n lines and height h at its bottom view
PageList(n, h, paging) ==
    [NewList(0, 0) EXCEPT !.trueH = h, !.content = [k \in 1..n |-> <<"a">>],
                          !.at = Max(n - h, 0), !.paging = paging]

\* C15: from the bottom view of a List, offset max(0, lines - height),
\* Display(Up) followed by Display(Down) leaves the offset at the bottom
\* offset again, for every number of lines and every height >= 1.
C15_UpDownRestoresBottom ==
    /\ (~crashed /\ TheList.trueH >= 1 /\ TheList.at = BottomAt(TheList))
           => UpDownAt(Frame(wins[1], cur), BottomAt(TheList))
    /\ \A h \in 1..MaxPageHeight, n \in 0..MaxPageLines, paging \in BOOLEAN :
           ListMoved(ListMoved(PageList(n, h, paging), Up), Down).at = Max(n - h, 0)

\* a bottom view that Display(Up) leaves and Display(Down) reaches again
\* without turning to Display(Bottom)
C15_Witness ==
    /\ ~crashed /\ TheList.trueH >= 2 /\ TheList.at = BottomAt(TheList)
    /\ Wd(ListDisplay(Frame(wins[1], cur), 0, Up), 0).at \notin {0, TheList.at}
    /\ TheList.paging
    /\ UpDownAt(Frame(wins[1], cur), TheList.at)


\* the lines of the List l are not empty and shorter than its width
ShortLines(l) ==
    \A k \in 1..Len(l.content) :
        Len(Unescape(l.content[k])) >= 1 /\ Len(Unescape(l.content[k])) < l.trueW

\* C16: for a List whose lines are all shorter than its width, Display(Top)
\* renders the first content line on the top row of the widget, whatever
\* the number of lines and whatever Append, Display and Resize came before.
C16_TopShowsFirstLine ==
    (~crashed /\ Len(TheList.content) >= 1 /\ TheList.trueH >= 1 /\ ShortLines(TheList))
        => ListShows(ListDisplay(Frame(wins[1], cur), 0, Top), TheList,
                     Chunks(Unescape(TheList.content[1]), TheList.trueW))


\* the goroutine of SpecCodec: its text, and what its last statement returned
TheText == callers["a1"].obs
TheRet == callers["a1"].ret

\* the termbox bit of an attribute, the termbox number of a colour; an
\* attribute or colour that is not set gives the default
AttrBit(at) ==
    CASE at = AttrBold -> TbAttrBold
      [] at = AttrUnderline -> TbAttrUnderline
      [] at = AttrReverse -> TbAttrReverse
      [] OTHER -> 0

TbColour(n, default) == IF n = AttrNA THEN default ELSE n + 1

\* C17: for every triple Color accepts, DecodeColor of the sequence Color
\* returned succeeds, consumes the whole sequence, and gives the attribute
\* bit combined with the foreground colour in Fg and the background colour
\* in Bg, a field that is not set being left at its default.
C17_DecodeOfColor ==
    TheRet.fn = "DecodeSeq" =>
        /\ TheRet.val.d.err = ""
        /\ TheRet.val.d.skip = Len(TheRet.val.es)
        /\ TheRet.val.d.Fg = BitOr(AttrBit(TheRet.arg[1]), TbColour(TheRet.arg[2], fg))
        /\ TheRet.val.d.Bg = TbColour(TheRet.arg[3], bg)

\* Color(AttrBold, ColorRed, AttrNA) decoded: bold and red in Fg, Bg unchanged
C17_Witness ==
    /\ TheRet.fn = "DecodeSeq" /\ TheRet.arg = <<AttrBold, 1, AttrNA>>
    /\ TheRet.val.es = <<ESC, "[", "1", ";", "3", "1", "m">>
    /\ TheRet.val.d = [Fg |-> TbAttrBold + 2, Bg |-> ColorDefault, skip |-> 7, err |-> ""]

\* the text of the goroutine is runes, none of them the escape marker, with
\* sequences Color returned among them
PlainWithSeqs == \A k \in 1..Len(TheText.plain) : TheText.plain[k] # ESC

\* C18: Unescape of plain text with any number of sequences Color returned
\* inserted at any place returns the plain text.
C18_UnescapeGivesPlain ==
    (TheRet.fn = "Unescape" /\ PlainWithSeqs) => TheRet.val = TheText.plain

\* two sequences in a row at the start of the text and plain text after them
C18_Witness ==
    /\ TheRet.fn = "Unescape" /\ TheText.ns = 1
    /\ TheRet.arg = <<ESC, "[", "0", "m", ESC, "[", "1", ";", "3", "1", "m", "m">>
    /\ TheRet.val = <<"m">>

C20_DecodeFailsNotEsc ==
    (TheRet.fn = "DecodeColor" /\ TheRet.val.err # "")
        => TheRet.val.err = "ErrNotEscSequence" /\ TheRet.val.skip = 0


\* getCell(x, y) of window w
CellAt(w, x, y) == w.backingStore[x + (y * w.x) + 1]

\* the cells of window w whose dirty flag is set, as SetCell gets them
DirtyOf(w) ==
    { <<p[1], p[2], CellAt(w, p[1], p[2]).Ch, CellAt(w, p[1], p[2]).Fg,
        CellAt(w, p[1], p[2]).Bg>> :
      p \in { q \in (0..(w.x - 1)) \X (0..(w.y - 1)) : CellAt(w, q[1], q[2]).dirty } }

\* the window w1 is w with every dirty flag cleared and nothing else changed
Cleaned(w, w1) ==
    /\ w1 = [w EXCEPT !.backingStore = w1.backingStore]
    /\ Len(w1.backingStore) = Len(w.backingStore)
    /\ \A k \in 1..Len(w.backingStore) :
           w1.backingStore[k] = [w.backingStore[k] EXCEPT !.dirty = FALSE]

\* C21: a flush sends exactly the dirty cells of the focused window, with
\* their glyph and colours, and clears their flags: after it no cell of the
\* focused window is dirty, a flush repeated at once sends nothing, the
\* other windows are untouched, and with no focused window nothing happens.
C21_FlushSendsDirty ==
    [][/\ (FlFlush /\ focus = Nil) => (wins' = wins /\ sent' = sent)
       /\ (FlFlush /\ focus # Nil) =>
              /\ sent' = DirtyOf(wins[focus + 1])
              /\ Cleaned(wins[focus + 1], wins'[focus + 1])
              /\ DirtyOf(wins'[focus + 1]) = {}
              /\ \A v \in windows \ {focus} : wins'[v + 1] = wins[v + 1]
       /\ (\E w \in FlWins : FlFocus(w)) =>
              /\ DirtyOf(wins'[focus' + 1]) = {}
              /\ \A v \in windows \ {focus'} : wins'[v + 1] = wins[v + 1]]_vars

\* a flush has sent the one cell painted since the flush before it, while
\* the other window has dirty cells
C21_Witness ==
    /\ focus = 0 /\ ~crashed
    /\ sent = {<<0, 0, "a", ColorDefault, ColorDefault>>}
    /\ CellAt(wins[1], 1, 0).Ch = "c"
    /\ DirtyOf(wins[1]) = {}
    /\ DirtyOf(wins[2]) # {}


\* the window of SpecWin, and the indices of its widgets that can focus
TheWin == wins[1]
Focusable(w) == { k \in 0..(Len(w.widgets) - 1) : CanFocus(w.widgets[k + 1]) }
Least(S) == CHOOSE k \in S : \A j \in S : k <= j
Greatest(S) == CHOOSE k \in S : \A j \in S : k >= j

\* the index FocusNext is to move to from index i: the smallest focusable
\* index above i, or else the first focusable one
NextFocus(w, i) ==
    IF { k \in Focusable(w) : k > i } # {} THEN Least({ k \in Focusable(w) : k > i })
    ELSE Least(Focusable(w))

\* C22: FocusNext moves the focus to the focusable widget with the smallest
\* index above the current one, to the first focusable widget when there is
\* none above, and from index -1 to the first focusable widget; it never
\* focuses a widget that cannot focus.
C22_FocusNextInOrder ==
    [][WnFocusNext =>
          /\ ~crashed'
          /\ Focusable(TheWin) # {} => TheWin'.focus = NextFocus(TheWin, TheWin.focus)
          /\ TheWin'.focus >= 0 => TheWin'.focus \in Focusable(TheWin)]_vars

\* the focus has passed a Label between two Edits
C22_Witness ==
    /\ ~crashed /\ Len(TheWin.widgets) = 3
    /\ TheWin.widgets[1].kind = "edit" /\ TheWin.widgets[2].kind = "label"
    /\ TheWin.widgets[3].kind = "edit"
    /\ TheWin.focus = 2

\* the index FocusPrevious is to move to from index i: the largest focusable
\* index below i, or else the largest one above i
PreviousFocus(w, i) ==
    IF { k \in Focusable(w) : k < i } # {} THEN Greatest({ k \in Focusable(w) : k < i })
    ELSE Greatest({ k \in Focusable(w) : k > i })

\* C23: FocusPrevious moves the focus to the focusable widget with the
\* largest index below the current one, index 0 included, and when there is
\* none to the focusable widget with the largest index above the current
\* one.
C23_FocusPreviousInOrder ==
    [][(/\ WnFocusPrevious /\ TheWin.focus \in Focusable(TheWin)
        /\ Focusable(TheWin) # {TheWin.focus})
          => ~crashed' /\ TheWin'.focus = PreviousFocus(TheWin, TheWin.focus)]_vars

\* C24: FocusPrevious on a window in which no widget can focus changes
\* nothing of the window, its focus index included.
C24_FocusPreviousNoop ==
    [][(WnFocusPrevious /\ Focusable(TheWin) = {}) => ~crashed' /\ TheWin' = TheWin]_vars


\* the window w is none or a registered window
NoneOrRegistered(w) == w = Nil \/ w \in windows

\* focusWindow(w) has set previous := current and current := w when w is a
\* registered window other than the focused one, and changed neither
\* otherwise
Focused(w) ==
    IF w # Nil /\ w \in windows /\ w # focus
    THEN prevFocus' = focus /\ focus' = w
    ELSE UNCHANGED <<focus, prevFocus>>

\* C25: Focus(w) on a registered window that is not the focused one sets
\* previous := current and current := w; on no window, on a window that is
\* not registered and on the focused window it changes neither.  After any
\* NewWindow, Focus, FocusPrevious and Deinit the current and the previous
\* focused window are each none or registered, and differ when both are set.
C25_FocusAndPrevious ==
    [][/\ \A w \in {Nil} \cup (0..(lastWindowID - 1)) : FcFocus(w) => Focused(w)
       /\ FcFocusPrevious => Focused(prevFocus)
       /\ NoneOrRegistered(focus)' /\ NoneOrRegistered(prevFocus)'
       /\ (focus' # Nil /\ prevFocus' # Nil) => focus' # prevFocus']_vars

\* a third window is focused after a Deinit and an Init, the window focused
\* before it is the previous one, and a window made before the Deinit is
\* not registered
C25_Witness ==
    /\ ~crashed /\ focus = 2 /\ prevFocus = 1 /\ windows = {1, 2} /\ lastWindowID = 3


\* the key event of Enter
EnterKey == Event(0, "Enter", NUL)

\* the Edit has the same buffer, caret and viewport after the step
EditKept == /\ TheEdit'.display = TheEdit.display
            /\ TheEdit'.cx = TheEdit.cx /\ TheEdit'.cy = TheEdit.cy
            /\ TheEdit'.at = TheEdit.at
            /\ cur' = cur

\* C26: Enter on an Edit copies the display buffer into the target string,
\* is reported as not consumed, and leaves buffer, caret and viewport as
\* they were; no other key and no resize modifies the target: a step that
\* changes the target is the closure of Enter.
C26_EnterStoresTarget ==
    [][/\ (WnKey(EnterKey) /\ wins[1].focus = 0) =>
            /\ TheEdit'.target = TheEdit.display
            /\ ~WindowKeyHandler(Frame(wins[1], cur), EnterKey).used
            /\ EditKept
       /\ TheEdit'.target # TheEdit.target => WnKey(EnterKey)]_vars

\* Enter has stored a typed buffer, and a later key has changed the buffer
\* but not the target
C26_Witness ==
    /\ ~crashed /\ TheEdit.target = <<"a">> /\ TheEdit.display = <<"a", "a">>


\* the caret of the Edit is strictly inside its buffer
CaretInside == 0 < InString(TheEdit) /\ InString(TheEdit) < Len(TheEdit.display)

\* the step is a resize that changes the window's width, of an Edit with
\* the caret strictly inside
ResizedInside == ~crashed' /\ focus = 0 /\ term'[1] # term[1] /\ CaretInside

\* viewport offset and caret column after the step: shifted by d
EditShifted(d) == TheEdit'.at = TheEdit.at + d /\ TheEdit'.cx = TheEdit.cx - d

\* C27 as stated: with the caret strictly inside the buffer, a width that
\* shrinks by d moves the viewport offset up by d and the caret column down
\* by d, and a width that grows leaves both.
C27_ResizeShiftsByDelta ==
    [][ResizedInside => IF term'[1] < term[1] THEN EditShifted(term[1] - term'[1])
                        ELSE EditShifted(0)]_vars

\* C27, amended: the shift by d happens when the width shrinks by d and the
\* caret column is at or past the new width; when the caret column is
\* below the new width, and when the width grows, both are unchanged.  The
\* caret's buffer index is kept in every case.
C27_ResizeShiftsPastWidth ==
    [][ResizedInside =>
        /\ IF term'[1] < term[1] /\ TheEdit.cx >= term'[1]
           THEN EditShifted(term[1] - term'[1]) ELSE EditShifted(0)
        /\ InString(TheEdit') = InString(TheEdit)]_vars

\* the Edit after a shrink that shifted: the caret is strictly inside and
\* the viewport offset is not 0 in a window narrower than MaxWidth
C27_Witness ==
    /\ ~crashed /\ focus = 0 /\ term[1] = MinWidth /\ CaretInside
    /\ TheEdit.at = RzMaxWidth - MinWidth /\ TheEdit.cx < MinWidth


\* List.IsPaging
IsPaging(l) == l.paging

\* C28: IsPaging is true iff the List's offset is not the bottom offset,
\* max(0, lines - height); so whenever the view shows the bottom, after
\* Display(Bottom), after a Display(Down) that arrives at the bottom and
\* when all lines fit, IsPaging is false and the next Append is followed.
C28_PagingIffNotBottom ==
    ~crashed => (IsPaging(TheList) <=> TheList.at # BottomAt(TheList))


\* the cells the line s gets when it is printed unwrapped, with attributes a
Unwrapped(s, a) ==
    printf(Frame(MakeWindow(0, "mw", Len(s) + 1, 1), <<-1, -1>>), 0, 0, a, s).w.backingStore

\* glyph, foreground and background of a cell
Painted(c) == <<c.Ch, c.Fg, c.Bg>>

\* the rows of the List l in window w hold the glyphs of the line s, in
\* order and ahead of the filler, each painted as in the unwrapped line
WrapPainted(w, l, s) ==
    \A k \in 0..(Len(Unescape(s)) - 1) :
        Painted(CellAt(w, l.trueX + (k % l.trueW), l.trueY + (k \div l.trueW)))
            = Painted(Unwrapped(s, l.attr)[k + 1])

\* the step is a Display of a line that wraps
WrapDisplayed ==
    /\ ~crashed' /\ Len(TheList.content) = 1
    /\ Len(Unescape(TheList.content[1])) > TheList.trueW
    /\ \E where \in {Bottom, Current} : LsDisplay(where)

\* C29: when List wraps a line, each continuation row starts with the
\* colour sequence in effect at its split point and no row is prefixed with
\* a later one, so every glyph is painted with the attributes it has in the
\* unwrapped line; and the glyphs of the rows, in order and without the
\* filler, are the glyphs of the source line.
C29_WrapKeepsColours ==
    [][WrapDisplayed => WrapPainted(wins'[1], TheList, TheList.content[1])]_vars


\* printf(x, y, a, text) has made window w1 of w: the first n cells from
\* column x of line y hold the first n glyphs of the text, painted as the
\* sequences before them say, and no other cell has changed
PrintedCells(w, w1, x, y, a, text, n) ==
    /\ w1.x = w.x /\ w1.y = w.y
    /\ Len(w1.backingStore) = Len(w.backingStore)
    /\ \A p \in (0..(w.x - 1)) \X (0..(w.y - 1)) :
           IF p[2] = y /\ p[1] >= x /\ p[1] < x + n
           THEN /\ Painted(CellAt(w1, p[1], p[2])) = Painted(Unwrapped(text, a)[p[1] - x + 1])
                /\ CellAt(w1, p[1], p[2]).dirty
           ELSE CellAt(w1, p[1], p[2]) = CellAt(w, p[1], p[2])

\* the smaller of two numbers
Least2(a, b) == IF a < b THEN a ELSE b

\* C30: printf(x, y, attrs, text) writes exactly min(visible length of the
\* text, window width - x) cells, from column x of line y; a well-formed
\* colour sequence takes no column and sets the attributes of the glyphs
\* after it.
C30_PrintFillsRow ==
    [][\A w \in FlWins, text \in FlTexts :
          (FlRender(w, text) /\ ~crashed') =>
              PrintedCells(wins[w + 1], wins'[w + 1], wins[w + 1].widgets[1].trueX,
                           wins[w + 1].widgets[1].trueY, wins[w + 1].widgets[1].attr, text,
                           Least2(Len(Unescape(text)),
                                  wins[w + 1].x - wins[w + 1].widgets[1].trueX))]_vars


\* the closure with number i has been passed to Queue
Queued(i) == \E k \in 1..Len(accepted) : accepted[k] = i

\* the closure with number i has been executed and has returned
Returned(i) ==
    /\ \E k \in 1..Len(executed) : executed[k] = i
    /\ ~(exec.pc = "run" /\ exec.f.id = i)

\* C31: every closure passed to Queue is executed in the end, when every
\* closure terminates: no wake-up of the worker is lost, and a closure that
\* calls Queue on the worker returns, also when more closures are pending
\* than work can buffer.
C31_QueuedIsExecuted == \A i \in 1..(2 * QCalls) : Queued(i) ~> Returned(i)

\* a closure queued by the worker runs while more closures are pending
\* than work can buffer
C31_Witness ==
    /\ exec.pc = "run" /\ exec.f.by = "worker"
    /\ Len(work) = WorkCap /\ Len(fa) >= 1


\* C32: after any key events and window resizes the caret column of a
\* focused Edit is one of the Edit's visible columns, trueX up to
\* trueX + trueW - 1, for every anchor column and declared width.
C32_CaretInWidget ==
    (~crashed /\ focus = 0 /\ wins[1].focus = 0) =>
        /\ TheEdit.cx >= TheEdit.trueX
        /\ TheEdit.cx <= TheEdit.trueX + TheEdit.trueW - 1


\* C33: after any Append, Display and window resize the offset of a List is
\* at least 0 and at most max(0, lines - height), so that the lines
\* at .. at + height shown do not reach past the content, and the height
\* derived for the List is at least 1.
C33_OffsetInContent ==
    ~crashed =>
        /\ TheList.at >= 0
        /\ TheList.at <= BottomAt(TheList)
        /\ TheList.trueH >= 1


\* Render of the widget wd of window w writes a cell: printf gets a text
\* that is not empty and has room for its first glyph
WritesCell(w, wd) ==
    /\ wd.visibility # VisibilityHide
    /\ Len(Unescape(IF wd.kind = "edit" THEN EditText(wd) ELSE wd.text)) > 0
    /\ wd.trueX + 1 <= w.x - wd.trueX

\* the first cell that Render of wd writes, (trueX, trueY), is a cell of w
FirstCellInside(w, wd) ==
    /\ 0 <= wd.trueX /\ wd.trueX < w.x
    /\ 0 <= wd.trueY /\ wd.trueY < w.y
    /\ wd.trueX + (wd.trueY * w.x) < Len(w.backingStore)

\* every widget of window w that writes cells writes them inside w
RendersInside(w) ==
    \A i \in 1..Len(w.widgets) : WritesCell(w, w.widgets[i]) => FirstCellInside(w, w.widgets[i])

\* C34: every cell write made while the widgets are rendered is to a cell
\* inside the window's store, for every widget anchor, also one counted from
\* the bottom or the right edge, and after any terminal resizes, shrinking
\* included: the render of a resize writes inside the resized window and
\* does not fail.
C34_WritesInStore ==
    [][term' # term =>
          /\ RendersInside(resize(Frame(wins[1], cur), term'[1], term'[2]).w)
          /\ ~crashed']_vars

====
